---- MODULE Spec2Model ----
(***************************************************************************)
(* Model of the ESP32 Bluetooth speaker firmware: the DSP engine           *)
(* (main/dsp_processor.c) with the BLE control channel, the settings       *)
(* store and the boot sequence that drive it.                              *)
(*                                                                         *)
(* Numbers.  The engine computes in IEEE single precision.  The model      *)
(* keeps every float as an integer count of 2^-24 (ONE is 1.0f), which is  *)
(* the spacing of floats just below 1.0; products and quotients are        *)
(* rounded to that grid.  Values computed with powf/expf/sinf/cosf from    *)
(* compile-time constants (filter coefficients, smoothing coefficients,    *)
(* the volume curve, dB constants) are tabulated on the same grid.         *)
(***************************************************************************)
EXTENDS Integers, Sequences, FiniteSets, TLC

\* ------------------------------------------------------------------------
\* Fixed-point arithmetic standing in for float arithmetic
\* ------------------------------------------------------------------------

HALF == 2^12
ONE == 2^24

Abs(x) == IF x < 0 THEN -x ELSE x
Max(x, y) == IF x > y THEN x ELSE y
Min(x, y) == IF x < y THEN x ELSE y

\* a * b on the grid, rounded to nearest; the operands are split so that no
\* intermediate product leaves the 32-bit range of the model checker.
MulF(a, b) ==
  LET x == Abs(a)
      y == Abs(b)
      xh == x \div HALF
      xl == x % HALF
      yh == y \div HALF
      yl == y % HALF
      m == xh * yh + ((xh * yl + xl * yh + ((xl * yl) \div HALF) + (HALF \div 2)) \div HALF)
  IN IF (a < 0) = (b < 0) THEN m ELSE -m

\* a / b on the grid for a >= 0, b > 0 (long division, three bits per step).
RECURSIVE DivDigits(_, _, _, _)
DivDigits(r, b, n, acc) ==
  IF n = 0 THEN acc
  ELSE DivDigits((r * 8) % b, b, n - 1, acc * 8 + ((r * 8) \div b))

DivF(a, b) == DivDigits(a % b, b, 8, a \div b)

\* sqrtf on the grid (Newton iteration from above).
RECURSIVE SqrtIter(_, _, _)
SqrtIter(x, y, n) ==
  LET z == (y + DivF(x, y)) \div 2
  IN IF n = 0 \/ z >= y THEN y ELSE SqrtIter(x, z, n - 1)

SqrtF(x) == IF x = 0 THEN 0 ELSE SqrtIter(x, Max(x, ONE), 40)

\* powf(x, 1 - 1/ratio) for the fixed ratio DSP_NORMALIZER_RATIO = 4: x^(3/4).
PowThreeQuarters(x) == LET r == SqrtF(x) IN MulF(r, SqrtF(r))

\* ------------------------------------------------------------------------
\* Compile-time constants
\* ------------------------------------------------------------------------

ESP_OK == "ESP_OK"
ESP_ERR_INVALID_ARG == "ESP_ERR_INVALID_ARG"
ESP_ERR_INVALID_STATE == "ESP_ERR_INVALID_STATE"
ESP_ERR_NO_MEM == "ESP_ERR_NO_MEM"
ESP_ERR_NVS_NOT_FOUND == "ESP_ERR_NVS_NOT_FOUND"
ESP_FAIL == "ESP_FAIL"

DSP_PRESET_OFFICE == 0
DSP_PRESET_FULL == 1
DSP_PRESET_NIGHT == 2
DSP_PRESET_SPEECH == 3
DSP_PRESET_COUNT == 4
DSP_NUM_EQ_BANDS == 4
DSP_NUM_LOUDNESS_BANDS == 2
DSP_SMOOTHING_MS == 30
DSP_PRE_GAIN_DB == -6
DSP_LIMITER_THRESHOLD_DB == -1
DSP_LIMITER_ATTACK_MS == 3
DSP_LIMITER_RELEASE_MS == 120
DSP_AUDIO_DUCK_GAIN_DB == -12
DSP_NORMALIZER_THRESHOLD_DB == -20
DSP_NORMALIZER_RATIO == 4
DSP_NORMALIZER_ATTACK_MS == 7
DSP_NORMALIZER_RELEASE_MS == 150
DSP_NORMALIZER_MAKEUP_DB == 6

DSP_FLAG_LIMITER_ACTIVE == 1
DSP_FLAG_CLIPPING == 2
DSP_FLAG_MUTED == 8
DSP_FLAG_AUDIO_DUCK == 16
DSP_FLAG_NORMALIZER == 32

\* Volume-trim constants.  dsp_processor.c uses them; the header that defines
\* them is not part of the source tree at hand, so the values follow the
\* design document: the Night cap is 100 minus 20, the normalizer lowers the
\* cap by a fixed amount, and the engine starts at full volume (dsp_init sets
\* the volume gain to 1.0, the gain of volume 100).
DSP_VOLUME_CAP_NIGHT == 80
DSP_VOLUME_CAP_NORMALIZER_REDUCTION == 10
DSP_VOLUME_TRIM_DEFAULT == 100

\* calc_eq_band for preset_params[p][i]: the Audio EQ Cookbook coefficients of band i
\* (1-based) of preset p at sample rate fs, rounded to the fixed-point grid.
calc_eq_band(p, i, fs) ==
  CASE
    fs = 16000 /\ p = 0 /\ i = 1 ->
      [b0 |-> 16853166, b1 |-> -31867266, b2 |-> 15082795, a1 |-> -31872713, a2 |-> 15153297] []
    fs = 16000 /\ p = 0 /\ i = 2 ->
      [b0 |-> 16663644, b1 |-> -31217624, b2 |-> 14802097, a1 |-> -31217624, a2 |-> 14688525] []
    fs = 16000 /\ p = 0 /\ i = 3 ->
      [b0 |-> 15907331, b1 |-> -10253477, b2 |-> 6677893, a1 |-> -10253477, a2 |-> 5808008] []
    fs = 16000 /\ p = 0 /\ i = 4 ->
      [b0 |-> 16601607, b1 |-> 45527409, b2 |-> 32791089, a1 |-> 45635519, a2 |-> 32507369] []
    fs = 16000 /\ p = 1 /\ i = 1 ->
      [b0 |-> 16945246, b1 |-> -32250209, b2 |-> 15366411, a1 |-> -32261547, a2 |-> 15523103] []
    fs = 16000 /\ p = 1 /\ i = 2 ->
      [b0 |-> 16558632, b1 |-> -30380143, b2 |-> 14239464, a1 |-> -30380143, a2 |-> 14020880] []
    fs = 16000 /\ p = 1 /\ i = 3 ->
      [b0 |-> 17218698, b1 |-> -7117835, b2 |-> 5815100, a1 |-> -7117835, a2 |-> 6256582] []
    fs = 16000 /\ p = 1 /\ i = 4 ->
      [b0 |-> 15973731, b1 |-> 50903592, b2 |-> 46281743, a1 |-> 51803824, a2 |-> 44578026] []
    fs = 16000 /\ p = 2 /\ i = 1 ->
      [b0 |-> 16896574, b1 |-> -32007257, b2 |-> 15183773, a1 |-> -32016398, a2 |-> 15293992] []
    fs = 16000 /\ p = 2 /\ i = 2 ->
      [b0 |-> 16653777, b1 |-> -30989244, b2 |-> 14630498, a1 |-> -30989244, a2 |-> 14507060] []
    fs = 16000 /\ p = 2 /\ i = 3 ->
      [b0 |-> 17354212, b1 |-> -13387523, b2 |-> 6742692, a1 |-> -13387523, a2 |-> 7319688] []
    fs = 16000 /\ p = 2 /\ i = 4 ->
      [b0 |-> 16427681, b1 |-> 45241631, b2 |-> 32772040, a1 |-> 45456850, a2 |-> 32207286] []
    fs = 16000 /\ p = 3 /\ i = 1 ->
      [b0 |-> 16676554, b1 |-> -31707012, b2 |-> 15093538, a1 |-> -31698845, a2 |-> 15001043] []
    fs = 16000 /\ p = 3 /\ i = 2 ->
      [b0 |-> 16670295, b1 |-> -31369092, b2 |-> 14917751, a1 |-> -31369092, a2 |-> 14810830] []
    fs = 16000 /\ p = 3 /\ i = 3 ->
      [b0 |-> 18755089, b1 |-> -7405783, b2 |-> 5210528, a1 |-> -7405783, a2 |-> 7188401] []
    fs = 16000 /\ p = 3 /\ i = 4 ->
      [b0 |-> 16687588, b1 |-> 31293016, b2 |-> 15218495, a1 |-> 31293016, a2 |-> 15128867] []
    fs = 32000 /\ p = 0 /\ i = 1 ->
      [b0 |-> 16815451, b1 |-> -32705780, b2 |-> 15907932, a1 |-> -32707176, a2 |-> 15944771] []
    fs = 32000 /\ p = 0 /\ i = 2 ->
      [b0 |-> 16718494, b1 |-> -32410395, b2 |-> 15755982, a1 |-> -32410395, a2 |-> 15697260] []
    fs = 32000 /\ p = 0 /\ i = 3 ->
      [b0 |-> 16187351, b1 |-> -22267774, b2 |-> 9928911, a1 |-> -22267774, a2 |-> 9339046] []
    fs = 32000 /\ p = 0 /\ i = 4 ->
      [b0 |-> 17214190, b1 |-> 3406881, b2 |-> 1586660, a1 |-> 3837443, a2 |-> 1593071] []
    fs = 32000 /\ p = 1 /\ i = 1 ->
      [b0 |-> 16861408, b1 |-> -32902503, b2 |-> 16056751, a1 |-> -32905392, a2 |-> 16138054] []
    fs = 32000 /\ p = 1 /\ i = 2 ->
      [b0 |-> 16662871, b1 |-> -32003411, b2 |-> 15449673, a1 |-> -32003411, a2 |-> 15335328] []
    fs = 32000 /\ p = 1 /\ i = 3 ->
      [b0 |-> 17087190, b1 |-> -21170094, b2 |-> 9080485, a1 |-> -21170094, a2 |-> 9390459] []
    fs = 32000 /\ p = 1 /\ i = 4 ->
      [b0 |-> 18038658, b1 |-> 4964584, b2 |-> 1798046, a1 |-> 6143979, a2 |-> 1880093] []
    fs = 32000 /\ p = 2 /\ i = 1 ->
      [b0 |-> 16837098, b1 |-> -32779415, b2 |-> 15961005, a1 |-> -32781752, a2 |-> 16018550] []
    fs = 32000 /\ p = 2 /\ i = 2 ->
      [b0 |-> 16713190, b1 |-> -32300506, b2 |-> 15663740, a1 |-> -32300506, a2 |-> 15599714] []
    fs = 32000 /\ p = 2 /\ i = 3 ->
      [b0 |-> 17149821, b1 |-> -24206166, b2 |-> 10297262, a1 |-> -24206166, a2 |-> 10669867] []
    fs = 32000 /\ p = 2 /\ i = 4 ->
      [b0 |-> 17662561, b1 |-> 3222492, b2 |-> 1604395, a1 |-> 4094902, a2 |-> 1617330] []
    fs = 32000 /\ p = 3 /\ i = 1 ->
      [b0 |-> 16726533, b1 |-> -32623314, b2 |-> 15912985, a1 |-> -32621216, a2 |-> 15864400] []
    fs = 32000 /\ p = 3 /\ i = 2 ->
      [b0 |-> 16722049, b1 |-> -32483417, b2 |-> 15817805, a1 |-> -32483417, a2 |-> 15762638] []
    fs = 32000 /\ p = 3 /\ i = 3 ->
      [b0 |-> 18149387, b1 |-> -21764247, b2 |-> 8752701, a1 |-> -21764247, a2 |-> 10124872] []
    fs = 32000 /\ p = 3 /\ i = 4 ->
      [b0 |-> 16396676, b1 |-> -2602936, b2 |-> 10159253, a1 |-> -2602936, a2 |-> 9778712] []
    fs = 44100 /\ p = 0 /\ i = 1 ->
      [b0 |-> 16805012, b1 |-> -32937617, b2 |-> 16141937, a1 |-> -32938357, a2 |-> 16168993] []
    fs = 44100 /\ p = 0 /\ i = 2 ->
      [b0 |-> 16734213, b1 |-> -32729521, b2 |-> 16029355, a1 |-> -32729521, a2 |-> 15986352] []
    fs = 44100 /\ p = 0 /\ i = 3 ->
      [b0 |-> 16312254, b1 |-> -25516856, b2 |-> 11379026, a1 |-> -25516856, a2 |-> 10914064] []
    fs = 44100 /\ p = 0 /\ i = 4 ->
      [b0 |-> 17345408, b1 |-> -5715592, b2 |-> 1853831, a1 |-> -5018735, a2 |-> 1725166] []
    fs = 44100 /\ p = 1 /\ i = 1 ->
      [b0 |-> 16838342, b1 |-> -33081428, b2 |-> 16251372, a1 |-> -33082957, a2 |-> 16310969] []
    fs = 44100 /\ p = 1 /\ i = 2 ->
      [b0 |-> 16693211, b1 |-> -32436968, b2 |-> 15801920, a1 |-> -32436968, a2 |-> 15717914] []
    fs = 44100 /\ p = 1 /\ i = 3 ->
      [b0 |-> 17022984, b1 |-> -24868541, b2 |-> 10674737, a1 |-> -24868541, a2 |-> 10920504] []
    fs = 44100 /\ p = 1 /\ i = 4 ->
      [b0 |-> 18477651, b1 |-> -5212385, b2 |-> 1856806, a1 |-> -3186458, a2 |-> 1531314] []
    fs = 44100 /\ p = 2 /\ i = 1 ->
      [b0 |-> 16820708, b1 |-> -32991792, b2 |-> 16180986, a1 |-> -32993031, a2 |-> 16223240] []
    fs = 44100 /\ p = 2 /\ i = 2 ->
      [b0 |-> 16730288, b1 |-> -32650751, b2 |-> 15961100, a1 |-> -32650751, a2 |-> 15914172] []
    fs = 44100 /\ p = 2 /\ i = 3 ->
      [b0 |-> 17066549, b1 |-> -27003527, b2 |-> 11745440, a1 |-> -27003527, a2 |-> 12034773] []
    fs = 44100 /\ p = 2 /\ i = 4 ->
      [b0 |-> 17932820, b1 |-> -6179909, b2 |-> 1953761, a1 |-> -4762556, a2 |-> 1692012] []
    fs = 44100 /\ p = 3 /\ i = 1 ->
      [b0 |-> 16740369, b1 |-> -32877312, b2 |-> 16145540, a1 |-> -32876199, a2 |-> 16109806] []
    fs = 44100 /\ p = 3 /\ i = 2 ->
      [b0 |-> 16736840, b1 |-> -32781904, b2 |-> 16075033, a1 |-> -32781904, a2 |-> 16034656] []
    fs = 44100 /\ p = 3 /\ i = 3 ->
      [b0 |-> 17858876, b1 |-> -25418725, b2 |-> 10451621, a1 |-> -25418725, a2 |-> 11533281] []
    fs = 44100 /\ p = 3 /\ i = 4 ->
      [b0 |-> 16433505, b1 |-> -13109521, b2 |-> 10799753, a1 |-> -13109521, a2 |-> 10456042] []
    fs = 48000 /\ p = 0 /\ i = 1 ->
      [b0 |-> 16802764, b1 |-> -32987533, b2 |-> 16192658, a1 |-> -32988159, a2 |-> 16217581] []
    fs = 48000 /\ p = 0 /\ i = 2 ->
      [b0 |-> 16737629, b1 |-> -32797598, b2 |-> 16088764, a1 |-> -32797598, a2 |-> 16049177] []
    fs = 48000 /\ p = 0 /\ i = 3 ->
      [b0 |-> 16342363, b1 |-> -26206491, b2 |-> 11728589, a1 |-> -26206491, a2 |-> 11293736] []
    fs = 48000 /\ p = 0 /\ i = 4 ->
      [b0 |-> 17374244, b1 |-> -7724203, b2 |-> 2185705, a1 |-> -6961077, a2 |-> 2019607] []
    fs = 48000 /\ p = 1 /\ i = 1 ->
      [b0 |-> 16833382, b1 |-> -33119870, b2 |-> 16293491, a1 |-> -33121162, a2 |-> 16348365] []
    fs = 48000 /\ p = 1 /\ i = 2 ->
      [b0 |-> 16699831, b1 |-> -32529385, b2 |-> 15878777, a1 |-> -32529385, a2 |-> 15801392] []
    fs = 48000 /\ p = 1 /\ i = 3 ->
      [b0 |-> 17007315, b1 |-> -25644243, b2 |-> 11063804, a1 |-> -25644243, a2 |-> 11293903] []
    fs = 48000 /\ p = 1 /\ i = 4 ->
      [b0 |-> 18574302, b1 |-> -7466821, b2 |-> 2190007, a1 |-> -5228024, a2 |-> 1748296] []
    fs = 48000 /\ p = 2 /\ i = 1 ->
      [b0 |-> 16817182, b1 |-> -33037455, b2 |-> 16228642, a1 |-> -33038501, a2 |-> 16267561] []
    fs = 48000 /\ p = 2 /\ i = 2 ->
      [b0 |-> 16734008, b1 |-> -32725425, b2 |-> 16025792, a1 |-> -32725425, a2 |-> 15982584] []
    fs = 48000 /\ p = 2 /\ i = 3 ->
      [b0 |-> 17046906, b1 |-> -27587824, b2 |-> 12087054, a1 |-> -27587824, a2 |-> 12356743] []
    fs = 48000 /\ p = 2 /\ i = 4 ->
      [b0 |-> 17992486, b1 |-> -8263813, b2 |-> 2312900, a1 |-> -6710376, a2 |-> 1974733] []
    fs = 48000 /\ p = 3 /\ i = 1 ->
      [b0 |-> 16743349, b1 |-> -32932036, b2 |-> 16195956, a1 |-> -32931095, a2 |-> 16163030] []
    fs = 48000 /\ p = 3 /\ i = 2 ->
      [b0 |-> 16740052, b1 |-> -32845602, b2 |-> 16130893, a1 |-> -32845602, a2 |-> 16093729] []
    fs = 48000 /\ p = 3 /\ i = 3 ->
      [b0 |-> 17788488, b1 |-> -26174670, b2 |-> 10863255, a1 |-> -26174670, a2 |-> 11874527] []
    fs = 48000 /\ p = 3 /\ i = 4 ->
      [b0 |-> 16447981, b1 |-> -15277891, b2 |-> 11051497, a1 |-> -15277891, a2 |-> 10722262]

\* calc_eq_band for loudness_params[i] at sample rate fs.
calc_loudness_band(i, fs) ==
  CASE
    fs = 16000 /\ i = 1 ->
      [b0 |-> 16881744, b1 |-> -32200009, b2 |-> 15374538, a1 |-> -32207046, a2 |-> 15472029] []
    fs = 16000 /\ i = 2 ->
      [b0 |-> 16609522, b1 |-> 39191888, b2 |-> 23396149, a1 |-> 39236137, a2 |-> 23184206] []
    fs = 32000 /\ i = 1 ->
      [b0 |-> 16829635, b1 |-> -32876143, b2 |-> 16060857, a1 |-> -32877938, a2 |-> 16111482] []
    fs = 32000 /\ i = 2 ->
      [b0 |-> 17716959, b1 |-> 1334807, b2 |-> 1505881, a1 |-> 2307461, a2 |-> 1472971] []
    fs = 44100 /\ i = 1 ->
      [b0 |-> 16815283, b1 |-> -33062046, b2 |-> 16254360, a1 |-> -33062996, a2 |-> 16291477] []
    fs = 44100 /\ i = 2 ->
      [b0 |-> 17973508, b1 |-> -7600678, b2 |-> 2187594, a1 |-> -6091144, a2 |-> 1874352] []
    fs = 48000 /\ i = 1 ->
      [b0 |-> 16812196, b1 |-> -33102013, b2 |-> 16296237, a1 |-> -33102816, a2 |-> 16330414] []
    fs = 48000 /\ i = 2 ->
      [b0 |-> 18030526, b1 |-> -9593956, b2 |-> 2595279, a1 |-> -7950771, a2 |-> 2205403]

\* calc_biquad_highpass(DSP_HPF_FREQ_HZ, DSP_HPF_Q, fs).
calc_biquad_highpass(fs) ==
  CASE
    fs = 16000 ->
      [b0 |-> 16340362, b1 |-> -32680723, b2 |-> 16340362, a1 |-> -32669350, a2 |-> 15914881] []
    fs = 32000 ->
      [b0 |-> 16557348, b1 |-> -33114696, b2 |-> 16557348, a1 |-> -33111816, a2 |-> 16340361] []
    fs = 44100 ->
      [b0 |-> 16617386, b1 |-> -33234772, b2 |-> 16617386, a1 |-> -33233250, a2 |-> 16459079] []
    fs = 48000 ->
      [b0 |-> 16630315, b1 |-> -33260631, b2 |-> 16630315, a1 |-> -33259345, a2 |-> 16484700]

\* calc_smooth_coeff(time_ms, fs) = 1 - exp(-1 / max(1, time_ms/1000 * fs)).
calc_smooth_coeff(time_ms, fs) ==
  CASE
    time_ms = 30 /\ fs = 16000 -> 34916 []
    time_ms = 30 /\ fs = 32000 -> 17467 []
    time_ms = 30 /\ fs = 44100 -> 12676 []
    time_ms = 30 /\ fs = 48000 -> 11647 []
    time_ms = 3 /\ fs = 16000 -> 345910 []
    time_ms = 3 /\ fs = 32000 -> 173856 []
    time_ms = 3 /\ fs = 44100 -> 126334 []
    time_ms = 3 /\ fs = 48000 -> 116105 []
    time_ms = 120 /\ fs = 16000 -> 8736 []
    time_ms = 120 /\ fs = 32000 -> 4368 []
    time_ms = 120 /\ fs = 44100 -> 3170 []
    time_ms = 120 /\ fs = 48000 -> 2912 []
    time_ms = 7 /\ fs = 16000 -> 149130 []
    time_ms = 7 /\ fs = 32000 -> 74731 []
    time_ms = 7 /\ fs = 44100 -> 54260 []
    time_ms = 7 /\ fs = 48000 -> 49858 []
    time_ms = 150 /\ fs = 16000 -> 6989 []
    time_ms = 150 /\ fs = 32000 -> 3495 []
    time_ms = 150 /\ fs = 44100 -> 2536 []
    time_ms = 150 /\ fs = 48000 -> 2330

\* volume_to_gain for volume 1..99: DB_TO_LINEAR of the piecewise-linear dB curve.
VolumeCurve ==
  <<
    19374, 22373, 25836, 29835, 34452, 39785, 45943, 53054, 61266,
    70749, 81700, 94345, 108948, 125811, 145285, 167772, 193740, 223728,
    258357, 298346, 325252, 354585, 386563, 421425, 459431, 500864, 546034,
    595278, 648963, 707489, 771294, 840853, 916685, 999355, 1089482, 1187736,
    1294851, 1411627, 1538934, 1677722, 1756790, 1839585, 1926282, 2017065, 2112126,
    2211668, 2315900, 2425046, 2539334, 2659010, 2784325, 2915546, 3052951, 3196833,
    3347495, 3505257, 3670455, 3843438, 4024574, 4214246, 4362344, 4515646, 4674336,
    4838602, 5008641, 5184655, 5366855, 5555458, 5750689, 5952781, 6161974, 6378520,
    6602675, 6834707, 7074893, 7323520, 7580885, 7847293, 8123064, 8408526, 8704020,
    9009898, 9326526, 9654280, 9993552, 10344748, 10708284, 11084597, 11474133, 11877359,
    12294755, 12726820, 13174068, 13637033, 14116268, 14612344, 15125854, 15657409, 16207644 >>

\* DB_TO_LINEAR(db) for the decibel constants the engine uses.
DB_TO_LINEAR(db) ==
  CASE db = -6 -> 8408526
    [] db = -1 -> 14952709
    [] db = -12 -> 4214246
    [] db = -20 -> 1677722
    [] db = 6 -> 33474947

\* ------------------------------------------------------------------------
\* Engine state (dsp_state_t s_dsp)
\* ------------------------------------------------------------------------

EqBands == 1..DSP_NUM_EQ_BANDS
LoudnessBands == 1..DSP_NUM_LOUDNESS_BANDS
Channels == 1..2

ZeroCoeffs == [b0 |-> 0, b1 |-> 0, b2 |-> 0, a1 |-> 0, a2 |-> 0]

calc_biquad_bypass == [b0 |-> ONE, b1 |-> 0, b2 |-> 0, a1 |-> 0, a2 |-> 0]

reset_biquad_state == [z1 |-> 0, z2 |-> 0]

\* The delay lines of one filter, left and right channel, after a reset.
ZeroStereo == <<reset_biquad_state, reset_biquad_state>>

\* The loops over the bands that fill eq_target and loudness_target.
EqTargets(preset, fs) ==
  << calc_eq_band(preset, 1, fs), calc_eq_band(preset, 2, fs),
     calc_eq_band(preset, 3, fs), calc_eq_band(preset, 4, fs) >>

LoudnessTargets(fs) == << calc_loudness_band(1, fs), calc_loudness_band(2, fs) >>

\* The statically allocated engine before dsp_init: zero-initialised storage.
s_dsp_static ==
  [ sample_rate |-> 0, preset |-> 0, loudness_enabled |-> FALSE,
    hpf_coeffs |-> ZeroCoeffs,
    eq_coeffs |-> <<ZeroCoeffs, ZeroCoeffs, ZeroCoeffs, ZeroCoeffs>>,
    loudness_coeffs |-> <<ZeroCoeffs, ZeroCoeffs>>,
    eq_target |-> <<ZeroCoeffs, ZeroCoeffs, ZeroCoeffs, ZeroCoeffs>>,
    loudness_target |-> <<ZeroCoeffs, ZeroCoeffs>>,
    hpf_state |-> ZeroStereo,
    eq_state |-> <<ZeroStereo, ZeroStereo, ZeroStereo, ZeroStereo>>,
    loudness_state |-> <<ZeroStereo, ZeroStereo>>,
    limiter |-> [envelope |-> 0, gain |-> 0],
    limiter_threshold |-> 0, limiter_attack_coeff |-> 0, limiter_release_coeff |-> 0,
    pre_gain |-> 0, pre_gain_target |-> 0,
    loudness_gain |-> 0, loudness_gain_target |-> 0,
    mute_gain |-> 0, mute_gain_target |-> 0, muted |-> FALSE,
    audio_duck_enabled |-> FALSE, audio_duck_gain |-> 0, audio_duck_gain_target |-> 0,
    volume_trim |-> 0, volume_gain |-> 0, volume_gain_target |-> 0,
    normalizer_enabled |-> FALSE, normalizer_envelope |-> 0, normalizer_gain |-> 0,
    normalizer_threshold |-> 0, normalizer_ratio |-> 0,
    normalizer_attack_coeff |-> 0, normalizer_release_coeff |-> 0,
    normalizer_makeup_gain |-> 0,
    smooth_coeff |-> 0,
    limiter_active |-> FALSE, clipping_detected |-> FALSE,
    initialized |-> FALSE ]

\* ------------------------------------------------------------------------
\* Pure helpers of dsp_processor.c
\* ------------------------------------------------------------------------

\* A volume curve without the mute step at 0: volume 0 maps to -60 dB.
volume_to_gain_no_mute(volume) ==
  IF volume = 0 THEN SqrtF(ONE) \div 1000
  ELSE IF volume >= 100 THEN ONE
  ELSE VolumeCurve[volume]

volume_to_gain(volume) ==
  IF volume = 0 THEN 0
  ELSE IF volume >= 100 THEN ONE
  ELSE VolumeCurve[volume]

calc_limiter_coeffs(d) ==
  [d EXCEPT !.limiter_threshold = DB_TO_LINEAR(DSP_LIMITER_THRESHOLD_DB),
            !.limiter_attack_coeff = calc_smooth_coeff(DSP_LIMITER_ATTACK_MS, d.sample_rate),
            !.limiter_release_coeff = calc_smooth_coeff(DSP_LIMITER_RELEASE_MS, d.sample_rate)]

\* A recalculation that takes the EQ bands of the Office preset whatever the
\* active preset is.
update_filters_default_preset(d) ==
  LET fs == d.sample_rate
      f == [d EXCEPT !.hpf_coeffs = calc_biquad_highpass(fs),
                     !.eq_target = EqTargets(DSP_PRESET_OFFICE, fs),
                     !.loudness_target = LoudnessTargets(fs)]
  IN [calc_limiter_coeffs(f) EXCEPT
        !.normalizer_attack_coeff = calc_smooth_coeff(DSP_NORMALIZER_ATTACK_MS, fs),
        !.normalizer_release_coeff = calc_smooth_coeff(DSP_NORMALIZER_RELEASE_MS, fs),
        !.smooth_coeff = calc_smooth_coeff(DSP_SMOOTHING_MS, fs)]

update_filters(d) ==
  LET fs == d.sample_rate
      f == [d EXCEPT !.hpf_coeffs = calc_biquad_highpass(fs),
                     !.eq_target = EqTargets(d.preset, fs),
                     !.loudness_target = LoudnessTargets(fs)]
  IN [calc_limiter_coeffs(f) EXCEPT
        !.normalizer_attack_coeff = calc_smooth_coeff(DSP_NORMALIZER_ATTACK_MS, fs),
        !.normalizer_release_coeff = calc_smooth_coeff(DSP_NORMALIZER_RELEASE_MS, fs),
        !.smooth_coeff = calc_smooth_coeff(DSP_SMOOTHING_MS, fs)]

ResetAllFilterStates(d) ==
  [d EXCEPT !.hpf_state = ZeroStereo,
            !.eq_state = <<ZeroStereo, ZeroStereo, ZeroStereo, ZeroStereo>>,
            !.loudness_state = <<ZeroStereo, ZeroStereo>>]

\* A cap that forgets the Night preset.
dsp_get_volume_cap_no_night(d) ==
  IF d.normalizer_enabled THEN 100 - DSP_VOLUME_CAP_NORMALIZER_REDUCTION ELSE 100

dsp_get_volume_cap(d) ==
  LET cap == IF d.preset = DSP_PRESET_NIGHT THEN DSP_VOLUME_CAP_NIGHT ELSE 100
  IN IF d.normalizer_enabled /\ cap > DSP_VOLUME_CAP_NORMALIZER_REDUCTION
     THEN cap - DSP_VOLUME_CAP_NORMALIZER_REDUCTION
     ELSE cap

\* An effective volume that ignores the cap.
dsp_get_effective_volume_uncapped(d) == d.volume_trim

dsp_get_effective_volume(d) ==
  LET cap == dsp_get_volume_cap(d)
  IN IF d.volume_trim > cap THEN cap ELSE d.volume_trim

\* ------------------------------------------------------------------------
\* Public API: each operator maps the engine before the call to the engine
\* after it (s) and the value returned (ret).
\* ------------------------------------------------------------------------

dsp_init(sample_rate) ==
  LET a == [s_dsp_static EXCEPT
              !.sample_rate = sample_rate,
              !.preset = DSP_PRESET_OFFICE,
              !.loudness_enabled = FALSE,
              !.pre_gain = DB_TO_LINEAR(DSP_PRE_GAIN_DB),
              !.pre_gain_target = DB_TO_LINEAR(DSP_PRE_GAIN_DB),
              !.loudness_gain = 0, !.loudness_gain_target = 0,
              !.mute_gain = ONE, !.mute_gain_target = ONE, !.muted = FALSE,
              !.audio_duck_enabled = FALSE,
              !.audio_duck_gain = ONE, !.audio_duck_gain_target = ONE,
              !.volume_trim = DSP_VOLUME_TRIM_DEFAULT,
              !.volume_gain = ONE, !.volume_gain_target = ONE,
              !.normalizer_enabled = FALSE,
              !.normalizer_envelope = 0, !.normalizer_gain = ONE,
              !.normalizer_threshold = DB_TO_LINEAR(DSP_NORMALIZER_THRESHOLD_DB),
              !.normalizer_ratio = DSP_NORMALIZER_RATIO,
              !.normalizer_makeup_gain = DB_TO_LINEAR(DSP_NORMALIZER_MAKEUP_DB),
              !.limiter = [envelope |-> 0, gain |-> ONE]]
      b == update_filters(a)
      c == [b EXCEPT !.eq_coeffs = b.eq_target,
                     !.loudness_coeffs = <<calc_biquad_bypass, calc_biquad_bypass>>]
  IN [s |-> [ResetAllFilterStates(c) EXCEPT !.initialized = TRUE], ret |-> ESP_OK]

\* A reconfiguration that recomputes the coefficients but keeps the delay lines.
dsp_set_sample_rate_no_reset(d, sample_rate) ==
  IF ~d.initialized THEN [s |-> d, ret |-> ESP_ERR_INVALID_STATE]
  ELSE IF sample_rate = d.sample_rate THEN [s |-> d, ret |-> ESP_OK]
  ELSE [s |-> update_filters([d EXCEPT !.sample_rate = sample_rate]), ret |-> ESP_OK]

dsp_set_sample_rate(d, sample_rate) ==
  IF ~d.initialized THEN [s |-> d, ret |-> ESP_ERR_INVALID_STATE]
  ELSE IF sample_rate = d.sample_rate THEN [s |-> d, ret |-> ESP_OK]
  ELSE [s |-> ResetAllFilterStates(update_filters([d EXCEPT !.sample_rate = sample_rate])),
        ret |-> ESP_OK]

\* A preset change that also clears the filter memory.
dsp_set_preset_reset(d, preset) ==
  IF preset >= DSP_PRESET_COUNT THEN [s |-> d, ret |-> ESP_ERR_INVALID_ARG]
  ELSE IF ~d.initialized THEN [s |-> d, ret |-> ESP_ERR_INVALID_STATE]
  ELSE IF preset = d.preset THEN [s |-> d, ret |-> ESP_OK]
  ELSE LET a == [d EXCEPT !.preset = preset,
                          !.eq_target = EqTargets(preset, d.sample_rate)]
       IN [s |-> ResetAllFilterStates(
                   [a EXCEPT !.volume_gain_target =
                               volume_to_gain(dsp_get_effective_volume(a))]),
           ret |-> ESP_OK]

\* A preset change that falls back to Office for an id out of range.
dsp_set_preset_fallback(d, preset) ==
  LET p == IF preset >= DSP_PRESET_COUNT THEN DSP_PRESET_OFFICE ELSE preset
  IN IF ~d.initialized THEN [s |-> d, ret |-> ESP_ERR_INVALID_STATE]
     ELSE IF p = d.preset THEN [s |-> d, ret |-> ESP_OK]
     ELSE LET a == [d EXCEPT !.preset = p, !.eq_target = EqTargets(p, d.sample_rate)]
          IN [s |-> [a EXCEPT !.volume_gain_target =
                                volume_to_gain(dsp_get_effective_volume(a))],
              ret |-> ESP_OK]

\* A preset change without the range check: an id out of range becomes the
\* active preset.
dsp_set_preset_unchecked(d, preset) ==
  IF ~d.initialized THEN [s |-> d, ret |-> ESP_ERR_INVALID_STATE]
  ELSE IF preset = d.preset THEN [s |-> d, ret |-> ESP_OK]
  ELSE IF preset >= DSP_PRESET_COUNT THEN [s |-> [d EXCEPT !.preset = preset], ret |-> ESP_OK]
  ELSE LET a == [d EXCEPT !.preset = preset,
                          !.eq_target = EqTargets(preset, d.sample_rate)]
       IN [s |-> [a EXCEPT !.volume_gain_target =
                             volume_to_gain(dsp_get_effective_volume(a))],
           ret |-> ESP_OK]

dsp_set_preset(d, preset) ==
  IF preset >= DSP_PRESET_COUNT THEN [s |-> d, ret |-> ESP_ERR_INVALID_ARG]
  ELSE IF ~d.initialized THEN [s |-> d, ret |-> ESP_ERR_INVALID_STATE]
  ELSE IF preset = d.preset THEN [s |-> d, ret |-> ESP_OK]
  ELSE LET a == [d EXCEPT !.preset = preset,
                          !.eq_target = EqTargets(preset, d.sample_rate)]
       IN [s |-> [a EXCEPT !.volume_gain_target =
                             volume_to_gain(dsp_get_effective_volume(a))],
           ret |-> ESP_OK]

dsp_set_loudness(d, enabled) ==
  IF ~d.initialized THEN [s |-> d, ret |-> ESP_ERR_INVALID_STATE]
  ELSE IF enabled = d.loudness_enabled THEN [s |-> d, ret |-> ESP_OK]
  ELSE [s |-> [d EXCEPT !.loudness_enabled = enabled,
                        !.loudness_gain_target = IF enabled THEN ONE ELSE 0],
        ret |-> ESP_OK]

\* A mute that jumps the running gain instead of ramping it.
dsp_set_mute_jump(d, muted) ==
  IF ~d.initialized THEN [s |-> d, ret |-> ESP_ERR_INVALID_STATE]
  ELSE IF muted = d.muted THEN [s |-> d, ret |-> ESP_OK]
  ELSE [s |-> [d EXCEPT !.muted = muted,
                        !.mute_gain = IF muted THEN 0 ELSE ONE,
                        !.mute_gain_target = IF muted THEN 0 ELSE ONE],
        ret |-> ESP_OK]

dsp_set_mute(d, muted) ==
  IF ~d.initialized THEN [s |-> d, ret |-> ESP_ERR_INVALID_STATE]
  ELSE IF muted = d.muted THEN [s |-> d, ret |-> ESP_OK]
  ELSE [s |-> [d EXCEPT !.muted = muted,
                        !.mute_gain_target = IF muted THEN 0 ELSE ONE],
        ret |-> ESP_OK]

\* An audio duck that also scales the volume gain target.
dsp_set_audio_duck_scales_volume(d, enabled) ==
  IF ~d.initialized THEN [s |-> d, ret |-> ESP_ERR_INVALID_STATE]
  ELSE IF enabled = d.audio_duck_enabled THEN [s |-> d, ret |-> ESP_OK]
  ELSE [s |-> [d EXCEPT !.audio_duck_enabled = enabled,
                        !.audio_duck_gain_target =
                            IF enabled THEN DB_TO_LINEAR(DSP_AUDIO_DUCK_GAIN_DB) ELSE ONE,
                        !.volume_gain_target =
                            IF enabled THEN MulF(@, DB_TO_LINEAR(DSP_AUDIO_DUCK_GAIN_DB))
                            ELSE @],
        ret |-> ESP_OK]

dsp_set_audio_duck(d, enabled) ==
  IF ~d.initialized THEN [s |-> d, ret |-> ESP_ERR_INVALID_STATE]
  ELSE IF enabled = d.audio_duck_enabled THEN [s |-> d, ret |-> ESP_OK]
  ELSE [s |-> [d EXCEPT !.audio_duck_enabled = enabled,
                        !.audio_duck_gain_target =
                            IF enabled THEN DB_TO_LINEAR(DSP_AUDIO_DUCK_GAIN_DB) ELSE ONE],
        ret |-> ESP_OK]

\* A normalizer setter without the early return for the active value.
dsp_set_normalizer_no_early_return(d, enabled) ==
  IF ~d.initialized THEN [s |-> d, ret |-> ESP_ERR_INVALID_STATE]
  ELSE LET a == [d EXCEPT !.normalizer_enabled = enabled]
           b == IF enabled
                THEN [a EXCEPT !.normalizer_envelope = 0, !.normalizer_gain = ONE]
                ELSE a
       IN [s |-> [b EXCEPT !.volume_gain_target =
                             volume_to_gain(dsp_get_effective_volume(b))],
           ret |-> ESP_OK]

\* A normalizer setter that leaves the volume gain target as it was.
dsp_set_normalizer_stale_target(d, enabled) ==
  IF ~d.initialized THEN [s |-> d, ret |-> ESP_ERR_INVALID_STATE]
  ELSE IF enabled = d.normalizer_enabled THEN [s |-> d, ret |-> ESP_OK]
  ELSE LET a == [d EXCEPT !.normalizer_enabled = enabled]
       IN [s |-> IF enabled
                 THEN [a EXCEPT !.normalizer_envelope = 0, !.normalizer_gain = ONE]
                 ELSE a,
           ret |-> ESP_OK]

dsp_set_normalizer(d, enabled) ==
  IF ~d.initialized THEN [s |-> d, ret |-> ESP_ERR_INVALID_STATE]
  ELSE IF enabled = d.normalizer_enabled THEN [s |-> d, ret |-> ESP_OK]
  ELSE LET a == [d EXCEPT !.normalizer_enabled = enabled]
           b == IF enabled
                THEN [a EXCEPT !.normalizer_envelope = 0, !.normalizer_gain = ONE]
                ELSE a
       IN [s |-> [b EXCEPT !.volume_gain_target =
                             volume_to_gain(dsp_get_effective_volume(b))],
           ret |-> ESP_OK]

\* A volume setter without the initialization check.
dsp_set_volume_trim_unchecked(d, value) ==
  LET v == IF value > 100 THEN 100 ELSE value
  IN IF v = d.volume_trim THEN [s |-> d, ret |-> ESP_OK]
     ELSE LET a == [d EXCEPT !.volume_trim = v]
          IN [s |-> [a EXCEPT !.volume_gain_target =
                                volume_to_gain(dsp_get_effective_volume(a))],
              ret |-> ESP_OK]

dsp_set_volume_trim(d, value) ==
  IF ~d.initialized THEN [s |-> d, ret |-> ESP_ERR_INVALID_STATE]
  ELSE LET v == IF value > 100 THEN 100 ELSE value
       IN IF v = d.volume_trim THEN [s |-> d, ret |-> ESP_OK]
          ELSE LET a == [d EXCEPT !.volume_trim = v]
               IN [s |-> [a EXCEPT !.volume_gain_target =
                                     volume_to_gain(dsp_get_effective_volume(a))],
                   ret |-> ESP_OK]

\* A status read that reports the clipping flag but leaves it set.
dsp_get_status_no_clear(d) ==
  [ status |->
      [ preset |-> d.preset,
        loudness |-> IF d.loudness_enabled THEN 1 ELSE 0,
        flags |-> DSP_FLAG_LIMITER_ACTIVE
                  + (IF d.muted THEN DSP_FLAG_MUTED ELSE 0)
                  + (IF d.audio_duck_enabled THEN DSP_FLAG_AUDIO_DUCK ELSE 0)
                  + (IF d.normalizer_enabled THEN DSP_FLAG_NORMALIZER ELSE 0)
                  + (IF d.clipping_detected THEN DSP_FLAG_CLIPPING ELSE 0) ],
    s |-> d ]

\* dsp_get_status: the status record, and the engine with the clipping flag
\* cleared by the read.
dsp_get_status(d) ==
  [ status |->
      [ preset |-> d.preset,
        loudness |-> IF d.loudness_enabled THEN 1 ELSE 0,
        flags |-> DSP_FLAG_LIMITER_ACTIVE
                  + (IF d.muted THEN DSP_FLAG_MUTED ELSE 0)
                  + (IF d.audio_duck_enabled THEN DSP_FLAG_AUDIO_DUCK ELSE 0)
                  + (IF d.normalizer_enabled THEN DSP_FLAG_NORMALIZER ELSE 0)
                  + (IF d.clipping_detected THEN DSP_FLAG_CLIPPING ELSE 0) ],
    s |-> [d EXCEPT !.clipping_detected = FALSE] ]

\* ------------------------------------------------------------------------
\* Real-time path (dsp_process)
\* ------------------------------------------------------------------------

\* A sample buffer argument: the NULL pointer, or the samples it points to.
NULL == [null |-> TRUE, data |-> <<>>]
Buffer(data) == [null |-> FALSE, data |-> data]

INT16_TO_FLOAT(x) == x * (ONE \div 32768)

\* (int16_t)fmaxf(-32768, fminf(32767, x * 32768)): clamp, then truncate toward zero.
FLOAT_TO_INT16(x) ==
  LET t == Abs(x) \div (ONE \div 32768)
      v == IF x < 0 THEN -t ELSE t
  IN Max(-32768, Min(32767, v))

\* One sample through a Direct Form II Transposed section: the output and
\* the delay line after it.
biquad_process(c, s, in) ==
  LET out == MulF(c.b0, in) + s.z1
  IN [ out |-> out,
       s |-> [z1 |-> MulF(c.b1, in) - MulF(c.a1, out) + s.z2,
              z2 |-> MulF(c.b2, in) - MulF(c.a2, out)] ]

interpolate_coeffs(current, target, alpha) ==
  [ b0 |-> current.b0 + MulF(alpha, target.b0 - current.b0),
    b1 |-> current.b1 + MulF(alpha, target.b1 - current.b1),
    b2 |-> current.b2 + MulF(alpha, target.b2 - current.b2),
    a1 |-> current.a1 + MulF(alpha, target.a1 - current.a1),
    a2 |-> current.a2 + MulF(alpha, target.a2 - current.a2) ]

\* x += coeff * (target - x)
Smooth(x, target, coeff) == x + MulF(coeff, target - x)

\* A frame in flight: the engine and the two channel samples.
Frame(d, l, r) == [s |-> d, left |-> l, right |-> r]

PreGainStage(f) ==
  LET g == Smooth(f.s.pre_gain, f.s.pre_gain_target, f.s.smooth_coeff)
  IN Frame([f.s EXCEPT !.pre_gain = g], MulF(f.left, g), MulF(f.right, g))

HpfStage(f) ==
  LET l == biquad_process(f.s.hpf_coeffs, f.s.hpf_state[1], f.left)
      r == biquad_process(f.s.hpf_coeffs, f.s.hpf_state[2], f.right)
  IN Frame([f.s EXCEPT !.hpf_state = <<l.s, r.s>>], l.out, r.out)

\* Preset EQ bands b..DSP_NUM_EQ_BANDS, each smoothing its coefficients
\* toward the target before filtering.
RECURSIVE EqStage(_, _)
EqStage(f, b) ==
  IF b > DSP_NUM_EQ_BANDS THEN f
  ELSE LET c == interpolate_coeffs(f.s.eq_coeffs[b], f.s.eq_target[b], f.s.smooth_coeff)
           l == biquad_process(c, f.s.eq_state[b][1], f.left)
           r == biquad_process(c, f.s.eq_state[b][2], f.right)
       IN EqStage(Frame([f.s EXCEPT !.eq_coeffs[b] = c,
                                    !.eq_state[b] = <<l.s, r.s>>],
                        l.out, r.out),
                  b + 1)

\* Loudness bands b..DSP_NUM_LOUDNESS_BANDS on the wet signal.
RECURSIVE LoudnessBandsStage(_, _)
LoudnessBandsStage(f, b) ==
  IF b > DSP_NUM_LOUDNESS_BANDS THEN f
  ELSE LET c == interpolate_coeffs(f.s.loudness_coeffs[b], f.s.loudness_target[b],
                                   f.s.smooth_coeff)
           l == biquad_process(c, f.s.loudness_state[b][1], f.left)
           r == biquad_process(c, f.s.loudness_state[b][2], f.right)
       IN LoudnessBandsStage(Frame([f.s EXCEPT !.loudness_coeffs[b] = c,
                                               !.loudness_state[b] = <<l.s, r.s>>],
                                   l.out, r.out),
                             b + 1)

LOUDNESS_GATE == 16777

LoudnessStage(f) ==
  LET g == Smooth(f.s.loudness_gain, f.s.loudness_gain_target, f.s.smooth_coeff)
      d == [f.s EXCEPT !.loudness_gain = g]
  IN IF g > LOUDNESS_GATE
     THEN LET wet == LoudnessBandsStage(Frame(d, f.left, f.right), 1)
          IN Frame(wet.s,
                   MulF(f.left, ONE - g) + MulF(wet.left, g),
                   MulF(f.right, ONE - g) + MulF(wet.right, g))
     ELSE Frame(d, f.left, f.right)

\* Attack/release envelope follower shared by the normalizer and the limiter.
Envelope(env, peak, attack, release) ==
  IF peak > env THEN env + MulF(attack, peak - env)
  ELSE env + MulF(release, peak - env)

NormalizerStage(f) ==
  IF ~f.s.normalizer_enabled THEN f
  ELSE LET peak == Max(Abs(f.left), Abs(f.right))
           env == Envelope(f.s.normalizer_envelope, peak,
                           f.s.normalizer_attack_coeff, f.s.normalizer_release_coeff)
           gain == IF env > f.s.normalizer_threshold
                   THEN DivF(ONE, PowThreeQuarters(DivF(env, f.s.normalizer_threshold)))
                   ELSE ONE
           k == MulF(gain, f.s.normalizer_makeup_gain)
       IN Frame([f.s EXCEPT !.normalizer_envelope = env, !.normalizer_gain = gain],
                MulF(f.left, k), MulF(f.right, k))

\* A limiter that is skipped while the output is muted.
LimiterStage_skip_when_muted(f) ==
  IF f.s.muted THEN f
  ELSE LET peak == Max(Abs(f.left), Abs(f.right))
           env == Envelope(f.s.limiter.envelope, peak,
                           f.s.limiter_attack_coeff, f.s.limiter_release_coeff)
           over == env > f.s.limiter_threshold
           gain == IF over THEN DivF(f.s.limiter_threshold, env) ELSE ONE
       IN Frame([f.s EXCEPT !.limiter = [envelope |-> env, gain |-> gain],
                            !.limiter_active = over],
                MulF(f.left, gain), MulF(f.right, gain))

LimiterStage(f) ==
  LET peak == Max(Abs(f.left), Abs(f.right))
      env == Envelope(f.s.limiter.envelope, peak,
                      f.s.limiter_attack_coeff, f.s.limiter_release_coeff)
      over == env > f.s.limiter_threshold
      gain == IF over THEN DivF(f.s.limiter_threshold, env) ELSE ONE
  IN Frame([f.s EXCEPT !.limiter = [envelope |-> env, gain |-> gain],
                       !.limiter_active = over],
           MulF(f.left, gain), MulF(f.right, gain))

ClipStage(f) ==
  IF Abs(f.left) > ONE \/ Abs(f.right) > ONE
  THEN Frame([f.s EXCEPT !.clipping_detected = TRUE],
             Max(-ONE, Min(ONE, f.left)), Max(-ONE, Min(ONE, f.right)))
  ELSE f

VolumeStage(f) ==
  LET g == Smooth(f.s.volume_gain, f.s.volume_gain_target, f.s.smooth_coeff)
  IN Frame([f.s EXCEPT !.volume_gain = g], MulF(f.left, g), MulF(f.right, g))

DuckStage(f) ==
  LET g == Smooth(f.s.audio_duck_gain, f.s.audio_duck_gain_target, f.s.smooth_coeff)
  IN Frame([f.s EXCEPT !.audio_duck_gain = g], MulF(f.left, g), MulF(f.right, g))

MuteStage(f) ==
  LET g == Smooth(f.s.mute_gain, f.s.mute_gain_target, f.s.smooth_coeff)
  IN Frame([f.s EXCEPT !.mute_gain = g], MulF(f.left, g), MulF(f.right, g))

\* The body of dsp_process's loop for one stereo frame.
ProcessFrame(d, left, right) ==
  MuteStage(DuckStage(VolumeStage(ClipStage(LimiterStage(NormalizerStage(
    LoudnessStage(EqStage(HpfStage(PreGainStage(
      Frame(d, INT16_TO_FLOAT(left), INT16_TO_FLOAT(right)))), 1))))))))

\* Frame f written back to position i of the interleaved buffer.
StoreFrame(samples, i, f) ==
  [samples EXCEPT !.data[i * 2 + 1] = FLOAT_TO_INT16(f.left),
                  !.data[i * 2 + 2] = FLOAT_TO_INT16(f.right)]

\* Frames i..num_frames-1 of the interleaved buffer, processed in place.
RECURSIVE ProcessFrames(_, _, _, _)
\* The rest of the loop after frame i came out as f and was stored in out
\* (the test makes the checker finish frame i before it starts frame i+1).
ProcessFramesFrom(f, out, i, num_frames) ==
  IF Len(out.data) >= 0 /\ f.s.initialized
  THEN ProcessFrames(f.s, out, i + 1, num_frames)
  ELSE [s |-> f.s, samples |-> out]

ProcessFramesStep(f, samples, i, num_frames) ==
  ProcessFramesFrom(f, StoreFrame(samples, i, f), i, num_frames)

ProcessFrames(d, samples, i, num_frames) ==
  IF i >= num_frames THEN [s |-> d, samples |-> samples]
  ELSE ProcessFramesStep(ProcessFrame(d, samples.data[i * 2 + 1], samples.data[i * 2 + 2]),
                         samples, i, num_frames)

\* A dsp_process that does not look at the initialized flag.
dsp_process_unguarded(d, samples, num_samples) ==
  IF samples = NULL \/ num_samples = 0
  THEN [s |-> d, samples |-> samples]
  ELSE ProcessFrames(d, samples, 0, num_samples \div 2)

dsp_process(d, samples, num_samples) ==
  IF ~d.initialized \/ samples = NULL \/ num_samples = 0
  THEN [s |-> d, samples |-> samples]
  ELSE ProcessFrames(d, samples, 0, num_samples \div 2)

\* ------------------------------------------------------------------------
\* BLE control channel (ble_gatt_dsp.c) and settings store (nvs_settings.c)
\* ------------------------------------------------------------------------

DSP_CMD_SET_PRESET == 1
DSP_CMD_SET_LOUDNESS == 2
DSP_CMD_GET_STATUS == 3
DSP_CMD_SET_MUTE == 4
DSP_CMD_SET_AUDIO_DUCK == 5
DSP_CMD_SET_NORMALIZER == 6
DSP_CMD_SET_VOLUME == 7
DSP_CMD_SET_BYPASS == 8
DSP_CMD_SET_BASS_BOOST == 9
DSP_STATUS_PROTOCOL_VERSION == 1
I2S_SAMPLE_RATE == 44100
NVS_CONFIG_VERSION == 1

dsp_get_preset(d) == d.preset
dsp_get_loudness(d) == d.loudness_enabled

\* The bypass and bass-boost toggles.  handle_control_write calls their
\* setters, whose code is not part of dsp_processor.c; they follow the setter
\* contract of the design document: rejected before dsp_init, otherwise they
\* record the toggle.
s_dsp_toggles_static == [bypass |-> FALSE, bass_boost |-> FALSE]

dsp_set_bypass(d, t, enabled) ==
  IF ~d.initialized THEN [t |-> t, ret |-> ESP_ERR_INVALID_STATE]
  ELSE [t |-> [t EXCEPT !.bypass = enabled], ret |-> ESP_OK]

dsp_set_bass_boost(d, t, enabled) ==
  IF ~d.initialized THEN [t |-> t, ret |-> ESP_ERR_INVALID_STATE]
  ELSE [t |-> [t EXCEPT !.bass_boost = enabled], ret |-> ESP_OK]

\* static ble_state_t s_ble, static uint8_t status_value[], static nvs_state_t s_nvs
s_ble_static ==
  [ conn_id |-> 65535, connected |-> FALSE, notifications_enabled |-> FALSE,
    galactic_notifications_enabled |-> FALSE, ota_notifications_enabled |-> FALSE,
    last_contact_us |-> 0, galactic_timer_active |-> FALSE, settings_cb |-> "NULL" ]

status_value_static == << DSP_STATUS_PROTOCOL_VERSION, 0, 0, 1 >>

\* The settings record; bass_level and treble_level, which nothing changes,
\* are left out.
set_defaults ==
  [preset_id |-> DSP_PRESET_OFFICE, loudness |-> 0, config_version |-> NVS_CONFIG_VERSION]

s_nvs_static ==
  [ settings |-> [preset_id |-> 0, loudness |-> 0, config_version |-> 0],
    save_pending |-> FALSE, initialized |-> FALSE, timer_active |-> FALSE ]

\* The flash namespace before the first save.
NVS_NOT_FOUND == [found |-> FALSE, preset_id |-> 0, loudness |-> 0, config_version |-> 0]
Stored(settings) ==
  [found |-> TRUE, preset_id |-> settings.preset_id, loudness |-> settings.loudness,
   config_version |-> settings.config_version]

\* do_save: the cached settings written and committed; a failing write or
\* commit (write_ok = FALSE) leaves the committed contents as they were.
do_save(nvs, stored, write_ok) ==
  IF nvs.initialized /\ write_ok THEN Stored(nvs.settings) ELSE stored

nvs_settings_request_save(nvs) ==
  IF ~nvs.initialized THEN nvs
  ELSE [nvs EXCEPT !.timer_active = TRUE, !.save_pending = TRUE]

\* An update that caches the preset only.
nvs_settings_update_preset_only(nvs, preset, loudness) ==
  LET p == IF preset >= DSP_PRESET_COUNT THEN DSP_PRESET_OFFICE ELSE preset
  IN nvs_settings_request_save([nvs EXCEPT !.settings.preset_id = p])

nvs_settings_update(nvs, preset, loudness) ==
  LET p == IF preset >= DSP_PRESET_COUNT THEN DSP_PRESET_OFFICE ELSE preset
  IN nvs_settings_request_save(
       [nvs EXCEPT !.settings.preset_id = p,
                   !.settings.loudness = IF loudness # 0 THEN 1 ELSE 0])

settings_changed_callback(d, nvs) ==
  nvs_settings_update(nvs, dsp_get_preset(d), IF dsp_get_loudness(d) THEN 1 ELSE 0)

\* update_status_value: the status bytes rebuilt from dsp_get_status, which
\* clears the clipping flag.
update_status_value(d) ==
  LET r == dsp_get_status(d)
  IN [ s |-> r.s,
       value |-> << DSP_STATUS_PROTOCOL_VERSION, r.status.preset,
                    r.status.loudness, r.status.flags >> ]

\* One call made by a handler, with the status bytes it built or sent.
Step(call, value) == [call |-> call, value |-> value]

\* ble_gatt_dsp_notify_status; send_ok is the outcome of
\* esp_ble_gatts_send_indicate, now the value of esp_timer_get_time.
ble_gatt_dsp_notify_status(d, ble, value, send_ok, now) ==
  IF ~ble.connected \/ ~ble.notifications_enabled
  THEN [s |-> d, ble |-> ble, value |-> value, sent |-> <<>>, steps |-> <<>>]
  ELSE LET u == update_status_value(d)
       IN [ s |-> u.s,
            ble |-> IF send_ok THEN [ble EXCEPT !.last_contact_us = now] ELSE ble,
            value |-> u.value,
            sent |-> IF send_ok THEN <<u.value>> ELSE <<>>,
            steps |-> << Step("update_status_value", u.value),
                         Step("esp_ble_gatts_send_indicate", u.value) >> ]

\* The switch with the audio duck marked as a setting to persist.
ControlCommand_duck_persisted(d, t, cmd, val) ==
  LET R(s, tt, changed, called, ret) ==
        [s |-> s, t |-> tt, settings_changed |-> changed, called |-> called, ret |-> ret]
      S(r, changed, called) == R(r.s, t, changed, called, r.ret)
  IN CASE cmd = DSP_CMD_SET_PRESET ->
            IF val < DSP_PRESET_COUNT
            THEN S(dsp_set_preset(d, val), TRUE, "dsp_set_preset")
            ELSE R(d, t, FALSE, "none", ESP_OK)
       [] cmd = DSP_CMD_SET_LOUDNESS ->
            S(dsp_set_loudness(d, val # 0), TRUE, "dsp_set_loudness")
       [] cmd = DSP_CMD_GET_STATUS -> R(d, t, FALSE, "none", ESP_OK)
       [] cmd = DSP_CMD_SET_MUTE -> S(dsp_set_mute(d, val # 0), TRUE, "dsp_set_mute")
       [] cmd = DSP_CMD_SET_AUDIO_DUCK ->
            S(dsp_set_audio_duck(d, val # 0), TRUE, "dsp_set_audio_duck")
       [] cmd = DSP_CMD_SET_NORMALIZER ->
            S(dsp_set_normalizer(d, val # 0), TRUE, "dsp_set_normalizer")
       [] cmd = DSP_CMD_SET_VOLUME ->
            S(dsp_set_volume_trim(d, val), TRUE, "dsp_set_volume_trim")
       [] cmd = DSP_CMD_SET_BYPASS ->
            LET r == dsp_set_bypass(d, t, val # 0)
            IN R(d, r.t, FALSE, "dsp_set_bypass", r.ret)
       [] cmd = DSP_CMD_SET_BASS_BOOST ->
            LET r == dsp_set_bass_boost(d, t, val # 0)
            IN R(d, r.t, TRUE, "dsp_set_bass_boost", r.ret)
       [] OTHER -> R(d, t, FALSE, "none", ESP_OK)

\* The switch of handle_control_write: the setter run for (cmd, val), if any.
ControlCommand(d, t, cmd, val) ==
  LET R(s, tt, changed, called, ret) ==
        [s |-> s, t |-> tt, settings_changed |-> changed, called |-> called, ret |-> ret]
      S(r, changed, called) == R(r.s, t, changed, called, r.ret)
  IN CASE cmd = DSP_CMD_SET_PRESET ->
            IF val < DSP_PRESET_COUNT
            THEN S(dsp_set_preset(d, val), TRUE, "dsp_set_preset")
            ELSE R(d, t, FALSE, "none", ESP_OK)
       [] cmd = DSP_CMD_SET_LOUDNESS ->
            S(dsp_set_loudness(d, val # 0), TRUE, "dsp_set_loudness")
       [] cmd = DSP_CMD_GET_STATUS -> R(d, t, FALSE, "none", ESP_OK)
       [] cmd = DSP_CMD_SET_MUTE -> S(dsp_set_mute(d, val # 0), TRUE, "dsp_set_mute")
       [] cmd = DSP_CMD_SET_AUDIO_DUCK ->
            S(dsp_set_audio_duck(d, val # 0), FALSE, "dsp_set_audio_duck")
       [] cmd = DSP_CMD_SET_NORMALIZER ->
            S(dsp_set_normalizer(d, val # 0), TRUE, "dsp_set_normalizer")
       [] cmd = DSP_CMD_SET_VOLUME ->
            S(dsp_set_volume_trim(d, val), TRUE, "dsp_set_volume_trim")
       [] cmd = DSP_CMD_SET_BYPASS ->
            LET r == dsp_set_bypass(d, t, val # 0)
            IN R(d, r.t, FALSE, "dsp_set_bypass", r.ret)
       [] cmd = DSP_CMD_SET_BASS_BOOST ->
            LET r == dsp_set_bass_boost(d, t, val # 0)
            IN R(d, r.t, TRUE, "dsp_set_bass_boost", r.ret)
       [] OTHER -> R(d, t, FALSE, "none", ESP_OK)

\* A handler that builds and notifies the status value before it runs the setter.
handle_control_write_status_first(d, t, ble, value, nvs, data, send_ok, now) ==
  IF Len(data) < 2
  THEN [s |-> d, t |-> t, ble |-> ble, value |-> value, nvs |-> nvs,
        settings_cb_invoked |-> FALSE, sent |-> <<>>, called |-> "none", ret |-> ESP_OK,
        steps |-> <<>>]
  ELSE LET u == update_status_value(d)
           n == ble_gatt_dsp_notify_status(u.s, ble, u.value, send_ok, now)
           c == ControlCommand(n.s, t, data[1], data[2])
           cb == c.settings_changed /\ ble.settings_cb # "NULL"
       IN [ s |-> c.s, t |-> c.t, ble |-> n.ble, value |-> n.value,
            nvs |-> IF cb THEN settings_changed_callback(c.s, nvs) ELSE nvs,
            settings_cb_invoked |-> cb,
            sent |-> n.sent, called |-> c.called, ret |-> c.ret,
            steps |-> <<Step("update_status_value", u.value)>> \o n.steps
                      \o (IF c.called # "none" THEN <<Step(c.called, <<>>)>> ELSE <<>>)
                      \o (IF cb THEN <<Step("settings_cb", <<>>)>> ELSE <<>>) ]

\* handle_control_write(data, len): the command, the status refresh, the
\* notification and the persistence callback, with the calls made in order.
handle_control_write(d, t, ble, value, nvs, data, send_ok, now) ==
  IF Len(data) < 2
  THEN [s |-> d, t |-> t, ble |-> ble, value |-> value, nvs |-> nvs,
        settings_cb_invoked |-> FALSE, sent |-> <<>>, called |-> "none", ret |-> ESP_OK,
        steps |-> <<>>]
  ELSE LET c == ControlCommand(d, t, data[1], data[2])
           u == update_status_value(c.s)
           n == ble_gatt_dsp_notify_status(u.s, ble, u.value, send_ok, now)
           cb == c.settings_changed /\ ble.settings_cb # "NULL"
       IN [ s |-> n.s, t |-> c.t, ble |-> n.ble, value |-> n.value,
            nvs |-> IF cb THEN settings_changed_callback(n.s, nvs) ELSE nvs,
            settings_cb_invoked |-> cb,
            sent |-> n.sent, called |-> c.called, ret |-> c.ret,
            steps |-> (IF c.called # "none" THEN <<Step(c.called, <<>>)>> ELSE <<>>)
                      \o <<Step("update_status_value", u.value)>> \o n.steps
                      \o (IF cb THEN <<Step("settings_cb", <<>>)>> ELSE <<>>) ]

\* ------------------------------------------------------------------------
\* OTA manager (ota_manager.c)
\* ------------------------------------------------------------------------

OTA_STATE_IDLE == 0
OTA_STATE_CREDS_RECEIVED == 1
OTA_STATE_URL_RECEIVED == 2
OTA_STATE_WIFI_CONNECTING == 3
OTA_STATE_WIFI_CONNECTED == 4
OTA_STATE_DOWNLOADING == 5
OTA_STATE_VERIFYING == 6
OTA_STATE_SUCCESS == 7
OTA_STATE_PENDING_VERIFY == 8
OTA_STATE_ERROR == 255

OTA_ERROR_NONE == 0
OTA_ERROR_WIFI_CONNECT == 1
OTA_ERROR_HTTP_CONNECT == 2
OTA_ERROR_DOWNLOAD == 4
OTA_ERROR_VERIFY == 5
OTA_ERROR_WRITE == 6
OTA_ERROR_NO_CREDS == 7
OTA_ERROR_NO_URL == 8
OTA_ERROR_INVALID_IMAGE == 9
OTA_ERROR_CANCELLED == 10
OTA_ERROR_ROLLBACK_FAILED == 11

OTA_CMD_START == 16
OTA_CMD_CANCEL == 17
OTA_CMD_REBOOT == 18
OTA_CMD_GET_VERSION == 19
OTA_CMD_ROLLBACK == 20
OTA_CMD_VALIDATE == 21

WIFI_SSID_MAX_LEN == 32
WIFI_PASSWORD_MAX_LEN == 64
OTA_URL_MAX_LEN == 256

\* static ota_mgr_ctx_t s_ota; the strings are the bytes before the terminator.
s_ota_static ==
  [ state |-> OTA_STATE_IDLE, error |-> OTA_ERROR_NONE, status_cb |-> "NULL",
    ssid |-> <<>>, password |-> <<>>, url |-> <<>>,
    progress |-> 0, downloaded_bytes |-> 0, total_bytes |-> 0,
    ota_task_handle |-> "NULL", mutex |-> "NULL",
    cancel_requested |-> FALSE, initialized |-> FALSE ]

\* The C string at the start of a byte buffer: the bytes before the first NUL.
CStr(bytes) ==
  LET nul == {i \in DOMAIN bytes : bytes[i] = 0}
  IN IF nul = {} THEN bytes
     ELSE SubSeq(bytes, 1, (CHOOSE i \in nul : \A j \in nul : i <= j) - 1)

strnlen(bytes) == Len(CStr(bytes))

\* ota_mgr_get_status (the RSSI byte comes from the WiFi driver and is left out).
ota_mgr_get_status(o) ==
  [ state |-> o.state, error |-> o.error, progress |-> o.progress,
    downloaded_kb |-> (o.downloaded_bytes \div 1024) % 65536,
    total_kb |-> (o.total_bytes \div 1024) % 65536 ]

\* notify_status_update: the statuses handed to s_ota.status_cb.
notify_status_update(o) ==
  IF o.status_cb # "NULL" THEN <<ota_mgr_get_status(o)>> ELSE <<>>

\* What an OTA manager function leaves: the context, the statuses it handed to
\* the status callback, and its return value.
OtaResult(o, cb, ret) == [o |-> o, cb |-> cb, ret |-> ret]

set_state(o, state) ==
  LET n == [o EXCEPT !.state = state,
                     !.error = IF state # OTA_STATE_ERROR THEN OTA_ERROR_NONE ELSE @]
  IN OtaResult(n, notify_status_update(n), ESP_OK)

set_error(o, error) ==
  LET n == [o EXCEPT !.error = error, !.state = OTA_STATE_ERROR]
  IN OtaResult(n, notify_status_update(n), ESP_OK)

\* ota_mgr_init(status_cb); mutex_ok is the outcome of xSemaphoreCreateMutex,
\* pending whether the running image is ESP_OTA_IMG_PENDING_VERIFY.
ota_mgr_init(o, status_cb, mutex_ok, pending) ==
  IF o.initialized THEN OtaResult(o, <<>>, ESP_OK)
  ELSE IF ~mutex_ok THEN OtaResult([o EXCEPT !.status_cb = status_cb], <<>>, ESP_ERR_NO_MEM)
  ELSE OtaResult([o EXCEPT !.status_cb = status_cb, !.mutex = "mutex",
                           !.state = IF pending THEN OTA_STATE_PENDING_VERIFY ELSE @,
                           !.initialized = TRUE], <<>>, ESP_OK)

\* ota_mgr_set_credentials(data, len): "SSID\0PASSWORD" or "SSID:PASSWORD".
ota_mgr_set_credentials(o, data) ==
  LET len == Len(data)
      seps == {i \in 1..len : data[i] \in {0, 58}}
      found == IF seps = {} THEN 0 ELSE (CHOOSE i \in seps : \A j \in seps : i <= j) - 1
      fallback == found = 0 \/ found >= len
      ssid_len == Min(IF fallback THEN strnlen(data) ELSE found, WIFI_SSID_MAX_LEN)
      pwd_offset == ssid_len + 1
      pwd_len == IF pwd_offset < len THEN Min(len - pwd_offset, WIFI_PASSWORD_MAX_LEN) ELSE 0
  IN IF len = 0 THEN OtaResult(o, <<>>, ESP_ERR_INVALID_ARG)
     ELSE IF fallback /\ strnlen(data) = len THEN OtaResult(o, <<>>, ESP_ERR_INVALID_ARG)
     ELSE set_state([o EXCEPT !.ssid = CStr(SubSeq(data, 1, ssid_len)),
                              !.password = CStr(SubSeq(data, pwd_offset + 1,
                                                       pwd_offset + pwd_len))],
                    OTA_STATE_CREDS_RECEIVED)

\* The URL with trailing NUL, space, newline and carriage return removed.
RECURSIVE TrimUrl(_)
TrimUrl(bytes) ==
  IF bytes # <<>> /\ bytes[Len(bytes)] \in {0, 32, 10, 13}
  THEN TrimUrl(SubSeq(bytes, 1, Len(bytes) - 1)) ELSE bytes

ota_mgr_set_url(o, data) ==
  IF Len(data) = 0 THEN OtaResult(o, <<>>, ESP_ERR_INVALID_ARG)
  ELSE set_state([o EXCEPT !.url = CStr(TrimUrl(SubSeq(data, 1, Min(Len(data),
                                                                   OTA_URL_MAX_LEN))))],
                 OTA_STATE_URL_RECEIVED)

\* What a command leaves besides the context: whether it created the OTA task
\* and whether it restarted the chip.
CmdResult(r, task_created, restart) ==
  [o |-> r.o, cb |-> r.cb, ret |-> r.ret, task_created |-> task_created,
   restart |-> restart]

\* A start that looks for the URL before the credentials.
OtaCmdStart_url_first(o, ok) ==
  IF Len(o.url) = 0
  THEN CmdResult([set_error(o, OTA_ERROR_NO_URL) EXCEPT !.ret = ESP_ERR_INVALID_STATE],
                 FALSE, FALSE)
  ELSE IF Len(o.ssid) = 0
  THEN CmdResult([set_error(o, OTA_ERROR_NO_CREDS) EXCEPT !.ret = ESP_ERR_INVALID_STATE],
                 FALSE, FALSE)
  ELSE CmdResult(OtaResult(o, <<>>, ESP_ERR_INVALID_STATE), FALSE, FALSE)

\* A start that does not look at the task handle.
OtaCmdStart_no_handle_check(o, ok) ==
  IF Len(o.ssid) = 0
  THEN CmdResult([set_error(o, OTA_ERROR_NO_CREDS) EXCEPT !.ret = ESP_ERR_INVALID_STATE],
                 FALSE, FALSE)
  ELSE IF Len(o.url) = 0
  THEN CmdResult([set_error(o, OTA_ERROR_NO_URL) EXCEPT !.ret = ESP_ERR_INVALID_STATE],
                 FALSE, FALSE)
  ELSE LET n == [o EXCEPT !.progress = 0, !.downloaded_bytes = 0, !.total_bytes = 0,
                          !.cancel_requested = FALSE]
       IN IF ok
          THEN CmdResult(OtaResult([n EXCEPT !.ota_task_handle = "ota_task"], <<>>,
                                   ESP_OK), TRUE, FALSE)
          ELSE CmdResult([set_error(n, OTA_ERROR_DOWNLOAD) EXCEPT !.ret = ESP_ERR_NO_MEM],
                         FALSE, FALSE)

\* case OTA_CMD_START; ok is the outcome of xTaskCreate.
OtaCmdStart(o, ok) ==
  IF Len(o.ssid) = 0
  THEN CmdResult([set_error(o, OTA_ERROR_NO_CREDS) EXCEPT !.ret = ESP_ERR_INVALID_STATE],
                 FALSE, FALSE)
  ELSE IF Len(o.url) = 0
  THEN CmdResult([set_error(o, OTA_ERROR_NO_URL) EXCEPT !.ret = ESP_ERR_INVALID_STATE],
                 FALSE, FALSE)
  ELSE IF o.ota_task_handle # "NULL"
  THEN CmdResult(OtaResult(o, <<>>, ESP_ERR_INVALID_STATE), FALSE, FALSE)
  ELSE LET n == [o EXCEPT !.progress = 0, !.downloaded_bytes = 0, !.total_bytes = 0,
                          !.cancel_requested = FALSE]
       IN IF ok
          THEN CmdResult(OtaResult([n EXCEPT !.ota_task_handle = "ota_task"], <<>>,
                                   ESP_OK), TRUE, FALSE)
          ELSE CmdResult([set_error(n, OTA_ERROR_DOWNLOAD) EXCEPT !.ret = ESP_ERR_NO_MEM],
                         FALSE, FALSE)

\* ota_mgr_execute_command(cmd, param); ok is the outcome of the one system
\* call the command makes (xTaskCreate, the rollback or the validation).
ota_mgr_execute_command(o, cmd, param, ok) ==
  CASE cmd = OTA_CMD_START -> OtaCmdStart(o, ok)
    [] cmd = OTA_CMD_CANCEL ->
         IF o.ota_task_handle # "NULL"
         THEN CmdResult(OtaResult([o EXCEPT !.cancel_requested = TRUE], <<>>, ESP_OK),
                        FALSE, FALSE)
         ELSE CmdResult(set_state(o, OTA_STATE_IDLE), FALSE, FALSE)
    [] cmd = OTA_CMD_REBOOT ->
         IF o.state \in {OTA_STATE_SUCCESS, OTA_STATE_PENDING_VERIFY}
         THEN CmdResult(OtaResult(o, <<>>, ESP_OK), FALSE, TRUE)
         ELSE CmdResult(OtaResult(o, <<>>, ESP_ERR_INVALID_STATE), FALSE, FALSE)
    [] cmd = OTA_CMD_GET_VERSION ->
         CmdResult(OtaResult(o, notify_status_update(o), ESP_OK), FALSE, FALSE)
    [] cmd = OTA_CMD_ROLLBACK ->
         IF ok THEN CmdResult(OtaResult(o, <<>>, ESP_OK), FALSE, TRUE)
         ELSE CmdResult([set_error(o, OTA_ERROR_ROLLBACK_FAILED) EXCEPT !.ret = ESP_FAIL],
                        FALSE, FALSE)
    [] cmd = OTA_CMD_VALIDATE ->
         IF o.state # OTA_STATE_PENDING_VERIFY
         THEN CmdResult(OtaResult(o, <<>>, ESP_OK), FALSE, FALSE)
         ELSE IF ok THEN CmdResult(set_state(o, OTA_STATE_IDLE), FALSE, FALSE)
         ELSE CmdResult(OtaResult(o, <<>>, ESP_FAIL), FALSE, FALSE)
    [] OTHER -> CmdResult(OtaResult(o, <<>>, ESP_ERR_INVALID_ARG), FALSE, FALSE)
\* Outcomes of the calls nvs_settings_init makes into the NVS library and
\* FreeRTOS: all succeed, nvs_open fails, the read of the preset key fails,
\* xTimerCreate returns NULL.
BootOutcomes == {"ok", "nvs_open_failed", "read_failed", "timer_failed"}

\* nvs_settings_load into s_nvs.settings: the keys are copied when the preset
\* key is found and read; otherwise the settings are left as they were.
nvs_settings_load(nvs, stored, read_ok) ==
  IF ~stored.found THEN [nvs |-> nvs, ret |-> ESP_ERR_NVS_NOT_FOUND]
  ELSE IF ~read_ok THEN [nvs |-> nvs, ret |-> ESP_FAIL]
  ELSE [ nvs |-> [nvs EXCEPT !.settings = [preset_id |-> stored.preset_id,
                                           loudness |-> stored.loudness,
                                           config_version |-> stored.config_version]],
         ret |-> ESP_OK ]

\* What nvs_settings_init does with the load result: defaults when nothing is
\* stored, when the read failed or when the stored version is not the current
\* one.  do_save is called for the first and the last case, before
\* s_nvs.initialized is set.
InitSettings(l, stored, boot, write_ok) ==
  LET mismatch == l.ret = ESP_OK /\ l.nvs.settings.config_version # NVS_CONFIG_VERSION
      loaded == IF l.ret # ESP_OK \/ mismatch
                THEN [l.nvs EXCEPT !.settings = set_defaults] ELSE l.nvs
  IN [ nvs |-> IF boot = "timer_failed" THEN loaded
               ELSE [loaded EXCEPT !.initialized = TRUE],
       stored |-> IF l.ret = ESP_ERR_NVS_NOT_FOUND \/ mismatch
                  THEN do_save(loaded, stored, write_ok) ELSE stored,
       ret |-> IF boot = "timer_failed" THEN ESP_ERR_NO_MEM ELSE ESP_OK ]

\* nvs_settings_init on the module state nvs with the flash holding stored.
nvs_settings_init(nvs, stored, boot, write_ok) ==
  IF boot = "nvs_open_failed" THEN [nvs |-> nvs, stored |-> stored, ret |-> ESP_FAIL]
  ELSE InitSettings(nvs_settings_load(nvs, stored, boot # "read_failed"),
                    stored, boot, write_ok)

\* A boot sequence that would also restore the audio duck.
app_main_dsp_ducked(settings) ==
  dsp_set_audio_duck(
    dsp_set_loudness(dsp_set_preset(dsp_init(I2S_SAMPLE_RATE).s, settings.preset_id).s,
                     settings.loudness # 0).s, TRUE).s

\* app_main: the engine after dsp_init and the restore of the stored settings.
app_main_dsp(settings) ==
  dsp_set_loudness(dsp_set_preset(dsp_init(I2S_SAMPLE_RATE).s, settings.preset_id).s,
                   settings.loudness # 0).s

\* ------------------------------------------------------------------------
\* State
\* ------------------------------------------------------------------------

VARIABLES
  s_dsp,          \* the engine (static dsp_state_t s_dsp)
  s_dsp_toggles,  \* the engine's bypass and bass-boost toggles
  pcm,            \* the sample buffer handed to the last dsp_process call, as it left it
  s_ble,          \* static ble_state_t s_ble
  status_value,   \* the Status characteristic value
  notifications,  \* the Status notifications sent to the client, oldest first
  s_nvs,          \* static nvs_state_t s_nvs
  nvs_flash,      \* the settings committed to flash
  saved_active,   \* the engine's preset and loudness when flash was last written
  settings_cb_invoked,  \* the last handle_control_write called s_ble.settings_cb
  handler_steps,  \* the calls the last handle_control_write made, in order
  s_ota,          \* static ota_mgr_ctx_t s_ota
  ota_task,       \* where the OTA task is, "none" while there is no task
  ota_status_cb,  \* the statuses the last OTA step handed to s_ota.status_cb
  ota_half,       \* the second assignment of a set_state / set_error the OTA task
                  \* is in the middle of without the mutex, <<>> when there is none
  ota_exiting,    \* OTA tasks that cleared the handle and have not deleted themselves
  nvs_timer,      \* ticks until the debounce timer expires, while it is active
  nvs_tasks,      \* where the caller's task and the timer task are in nvs_settings.c
  nvs_log,        \* requests, callback runs and versions of what was cached and written
  link,           \* the BLE link: whether a client is connected, the CCCs it enabled
  sent,           \* the notifications delivered to a client, by characteristic
  notify_tasks,   \* where the timer task and the OTA task are in ble_gatt_dsp.c
  ctl,            \* the control context inside dsp_set_preset or dsp_set_sample_rate
  audio,          \* the EQ targets the last frame was processed with
  last,           \* the last call or event: its name, argument and return value
  before,         \* the engine as it was when the last call or event began
  calls,          \* number of calls or events counted against the bound
  frames          \* frames processed since the last dsp_set_volume_trim call

engineVars == <<s_dsp, pcm, last, before, calls, frames>>
serviceVars ==
  <<s_dsp_toggles, s_ble, status_value, notifications, s_nvs, nvs_flash, saved_active,
    settings_cb_invoked, handler_steps>>
otaVars == <<s_ota, ota_task, ota_status_cb, ota_half, ota_exiting>>
nvsTaskVars == <<nvs_timer, nvs_tasks, nvs_log>>
notifyVars == <<link, sent, notify_tasks>>
raceVars == <<ctl, audio>>
taskVars == <<otaVars, nvsTaskVars, notifyVars, raceVars>>
bleVars == <<serviceVars, taskVars>>
vars == <<engineVars, bleVars>>

\* No save has been written yet.
NotSaved == [written |-> FALSE, preset |-> 0, loudness |-> FALSE]

Call(op, arg, ret) == [op |-> op, arg |-> arg, ret |-> ret]

\* ------------------------------------------------------------------------
\* The engine driven through its API
\* ------------------------------------------------------------------------

MaxCalls == 5

SampleRates == {44100, 48000}
PresetArgs == 0..DSP_PRESET_COUNT
VolumeArgs == {0, 75, 95, 200}
PcmBuffers ==
  { NULL, Buffer(<<>>), Buffer(<<32767, -32768>>), Buffer(<<1000, 1000, -20000, 30000>>) }

\* Frames dsp_process works through for a buffer.
FramesOf(d, samples) ==
  IF ~d.initialized \/ samples = NULL THEN 0 ELSE Len(samples.data) \div 2

StaticOta ==
  /\ s_ota = s_ota_static
  /\ ota_task = "none"
  /\ ota_status_cb = <<>>
  /\ ota_half = <<>>
  /\ ota_exiting = 0

\* NVS_DEBOUNCE_MS, counted in ticks of the model's clock.
DebounceTicks == 2

\* A task outside nvs_settings.c, with nothing staged for flash.
TaskIdle ==
  [ pc |-> "idle", loudness |-> 0,
    staged |-> [preset_id |-> 0, loudness |-> 0, config_version |-> 0],
    staged_ver |-> [preset_id |-> 0, loudness |-> 0] ]

StaticNvsTasks ==
  /\ nvs_timer = 0
  /\ nvs_tasks = [caller |-> TaskIdle, timer |-> TaskIdle]
  /\ nvs_log = [ since_request |-> DebounceTicks, run_gap |-> DebounceTicks, runs |-> 0,
                 requested |-> FALSE, resets |-> 0, updates |-> 0,
                 cache_ver |-> [preset_id |-> 0, loudness |-> 0], written |-> 0 ]

\* No client connected, nothing sent, both notifying tasks outside the service.
StaticNotify ==
  /\ link = [up |-> FALSE, ccc |-> {}]
  /\ sent = {}
  /\ notify_tasks = [timer |-> "idle", ota |-> "idle"]

\* The control context outside the setters, no frame processed yet.
CtlIdle == [pc |-> "idle", op |-> "none", band |-> 1, field |-> 1, old |-> <<>>, new |-> <<>>]
NoFrame == [targets |-> <<>>, old |-> <<>>, new |-> <<>>]

StaticRace ==
  /\ ctl = CtlIdle
  /\ audio = NoFrame

StaticTasks == StaticOta /\ StaticNvsTasks /\ StaticNotify /\ StaticRace

StaticService ==
  /\ s_dsp_toggles = s_dsp_toggles_static
  /\ s_ble = s_ble_static
  /\ status_value = status_value_static
  /\ notifications = <<>>
  /\ s_nvs = s_nvs_static
  /\ nvs_flash = NVS_NOT_FOUND
  /\ saved_active = NotSaved
  /\ settings_cb_invoked = FALSE
  /\ handler_steps = <<>>

StaticBle == StaticService /\ StaticTasks

Init ==
  /\ s_dsp = s_dsp_static
  /\ pcm = NULL
  /\ last = Call("none", 0, ESP_OK)
  /\ before = s_dsp_static
  /\ calls = 0
  /\ frames = 0
  /\ StaticBle

\* A call of an API function that returns esp_err_t.
Invoke(op, arg, result) ==
  /\ calls < MaxCalls
  /\ s_dsp' = result.s
  /\ last' = Call(op, arg, result.ret)
  /\ before' = s_dsp
  /\ calls' = calls + 1
  /\ frames' = IF op = "dsp_set_volume_trim" THEN 0 ELSE frames
  /\ UNCHANGED pcm
  /\ UNCHANGED bleVars

DspInit(sample_rate) == Invoke("dsp_init", sample_rate, dsp_init(sample_rate))

DspSetSampleRate(sample_rate) ==
  Invoke("dsp_set_sample_rate", sample_rate, dsp_set_sample_rate(s_dsp, sample_rate))

DspSetPreset(preset) == Invoke("dsp_set_preset", preset, dsp_set_preset(s_dsp, preset))

DspSetLoudness(enabled) ==
  Invoke("dsp_set_loudness", enabled, dsp_set_loudness(s_dsp, enabled))

DspSetMute(muted) == Invoke("dsp_set_mute", muted, dsp_set_mute(s_dsp, muted))

DspSetAudioDuck(enabled) ==
  Invoke("dsp_set_audio_duck", enabled, dsp_set_audio_duck(s_dsp, enabled))

DspSetNormalizer(enabled) ==
  Invoke("dsp_set_normalizer", enabled, dsp_set_normalizer(s_dsp, enabled))

DspSetVolumeTrim(value) ==
  Invoke("dsp_set_volume_trim", value, dsp_set_volume_trim(s_dsp, value))

DspGetStatus ==
  /\ calls < MaxCalls
  /\ s_dsp' = dsp_get_status(s_dsp).s
  /\ last' = Call("dsp_get_status", dsp_get_status(s_dsp).status, ESP_OK)
  /\ before' = s_dsp
  /\ calls' = calls + 1
  /\ UNCHANGED <<pcm, frames>>
  /\ UNCHANGED bleVars

DspProcess(samples) ==
  /\ calls < MaxCalls
  /\ \E out \in {dsp_process(s_dsp, samples, Len(samples.data))} :
       /\ s_dsp' = out.s
       /\ pcm' = out.samples
  /\ last' = Call("dsp_process", samples, ESP_OK)
  /\ before' = s_dsp
  /\ calls' = calls + 1
  /\ frames' = frames + FramesOf(s_dsp, samples)
  /\ UNCHANGED bleVars

Next ==
  \/ \E sample_rate \in SampleRates : DspInit(sample_rate)
  \/ \E sample_rate \in SampleRates : DspSetSampleRate(sample_rate)
  \/ \E preset \in PresetArgs : DspSetPreset(preset)
  \/ \E enabled \in BOOLEAN : DspSetLoudness(enabled)
  \/ \E muted \in BOOLEAN : DspSetMute(muted)
  \/ \E enabled \in BOOLEAN : DspSetAudioDuck(enabled)
  \/ \E enabled \in BOOLEAN : DspSetNormalizer(enabled)
  \/ \E value \in VolumeArgs : DspSetVolumeTrim(value)
  \/ DspGetStatus
  \/ \E samples \in PcmBuffers : DspProcess(samples)

Spec == Init /\ [][Next]_vars

\* ------------------------------------------------------------------------
\* Properties of the control API
\* ------------------------------------------------------------------------

Setters ==
  { "dsp_set_preset", "dsp_set_loudness", "dsp_set_mute", "dsp_set_audio_duck",
    "dsp_set_normalizer", "dsp_set_volume_trim" }

\* The smoothed running values of the engine, and their targets.
Currents(d) ==
  [ pre_gain |-> d.pre_gain, loudness_gain |-> d.loudness_gain,
    mute_gain |-> d.mute_gain, audio_duck_gain |-> d.audio_duck_gain,
    volume_gain |-> d.volume_gain, eq |-> d.eq_coeffs, loudness |-> d.loudness_coeffs ]

Targets(d) ==
  [ pre_gain |-> d.pre_gain_target, loudness_gain |-> d.loudness_gain_target,
    mute_gain |-> d.mute_gain_target, audio_duck_gain |-> d.audio_duck_gain_target,
    volume_gain |-> d.volume_gain_target, eq |-> d.eq_target,
    loudness |-> d.loudness_target ]

\* The targets that belong to each setter.
OwnTargets(op) ==
  CASE op = "dsp_set_preset" -> {"eq", "volume_gain"}
    [] op = "dsp_set_loudness" -> {"loudness_gain"}
    [] op = "dsp_set_mute" -> {"mute_gain"}
    [] op = "dsp_set_audio_duck" -> {"audio_duck_gain"}
    [] op = "dsp_set_normalizer" -> {"volume_gain"}
    [] op = "dsp_set_volume_trim" -> {"volume_gain"}

\* All delay registers of all filters.
Registers(d) == <<d.hpf_state, d.eq_state, d.loudness_state>>
ZeroRegisters ==
  << ZeroStereo, <<ZeroStereo, ZeroStereo, ZeroStereo, ZeroStereo>>,
     <<ZeroStereo, ZeroStereo>> >>

\* The setter named op applied to engine d.
ApplySetter(op, d, arg) ==
  CASE op = "dsp_set_preset" -> dsp_set_preset(d, arg)
    [] op = "dsp_set_loudness" -> dsp_set_loudness(d, arg)
    [] op = "dsp_set_mute" -> dsp_set_mute(d, arg)
    [] op = "dsp_set_audio_duck" -> dsp_set_audio_duck(d, arg)
    [] op = "dsp_set_normalizer" -> dsp_set_normalizer(d, arg)
    [] op = "dsp_set_volume_trim" -> dsp_set_volume_trim(d, arg)

\* The argument is the value the engine already has.
AlreadyActive(d, op, arg) ==
  CASE op = "dsp_set_preset" -> arg = d.preset
    [] op = "dsp_set_loudness" -> arg = d.loudness_enabled
    [] op = "dsp_set_mute" -> arg = d.muted
    [] op = "dsp_set_audio_duck" -> arg = d.audio_duck_enabled
    [] op = "dsp_set_normalizer" -> arg = d.normalizer_enabled
    [] op = "dsp_set_volume_trim" -> Min(arg, 100) = d.volume_trim

\* C1: a setter call never changes a smoothed running value (pre_gain,
\* loudness_gain, mute_gain, audio_duck_gain, volume_gain, eq_coeffs,
\* loudness_coeffs) and changes no target but its own; the running values
\* change only in dsp_process (and when dsp_init constructs the engine).
C1_SettersWriteOnlyTargets ==
  /\ last.op \in Setters =>
       /\ Currents(s_dsp) = Currents(before)
       /\ \A k \in DOMAIN Targets(s_dsp) :
            Targets(s_dsp)[k] # Targets(before)[k] => k \in OwnTargets(last.op)
  /\ Currents(s_dsp) # Currents(before) => last.op \in {"dsp_process", "dsp_init"}

\* A mute call has moved the target while the running gain stays where it was.
C1_Witness ==
  /\ last.op = "dsp_set_mute" /\ last.ret = ESP_OK
  /\ s_dsp.mute_gain_target # before.mute_gain_target
  /\ s_dsp.mute_gain = before.mute_gain
  /\ s_dsp.mute_gain # s_dsp.mute_gain_target

\* C2: on an initialized engine a setter called with the value already active
\* (volume trim: after clamping to 100) returns ESP_OK and leaves the whole
\* engine, delay registers included, unchanged; and applying any setter once
\* more with the same argument changes nothing.
C2_ActiveValueIsNoOp ==
  last.op \in Setters =>
    /\ before.initialized /\ AlreadyActive(before, last.op, last.arg) =>
         last.ret = ESP_OK /\ s_dsp = before
    /\ ApplySetter(last.op, s_dsp, last.arg).s = s_dsp

\* The normalizer is enabled again while it is tracking audio and the filters
\* hold signal.
C2_Witness ==
  /\ last.op = "dsp_set_normalizer" /\ last.arg = TRUE
  /\ before.initialized /\ before.normalizer_enabled
  /\ before.normalizer_envelope > 0
  /\ Registers(before) # ZeroRegisters
  /\ s_dsp = before

\* C3: dsp_set_preset with a valid preset other than the active one changes
\* the active preset, the EQ targets and the volume gain target and nothing
\* else: delay registers and running coefficients are as before.
C3_PresetChangeKeepsFilterState ==
  (last.op = "dsp_set_preset" /\ last.ret = ESP_OK /\ last.arg # before.preset) =>
    /\ s_dsp.preset = last.arg
    /\ Registers(s_dsp) = Registers(before)
    /\ Currents(s_dsp) = Currents(before)
    /\ s_dsp.hpf_coeffs = before.hpf_coeffs
    /\ s_dsp = [before EXCEPT !.preset = s_dsp.preset,
                              !.eq_target = s_dsp.eq_target,
                              !.volume_gain_target = s_dsp.volume_gain_target]

\* A preset change on an engine whose filters hold signal.
C3_Witness ==
  /\ last.op = "dsp_set_preset" /\ last.ret = ESP_OK /\ last.arg # before.preset
  /\ Registers(before) # ZeroRegisters
  /\ s_dsp.eq_target # before.eq_target
  /\ s_dsp.eq_coeffs # s_dsp.eq_target

\* The EQ and loudness targets are those of the active preset at rate fs.
TargetsComputed(d, fs) ==
  /\ d.eq_target = EqTargets(d.preset, fs)
  /\ d.loudness_target = LoudnessTargets(fs)

\* C4 as stated: every dsp_set_sample_rate call on an initialized engine that
\* returns ESP_OK leaves every delay register at zero and every EQ and
\* loudness target equal to the one computed for the requested rate.
C4_EveryOkCallResets ==
  (last.op = "dsp_set_sample_rate" /\ before.initialized /\ last.ret = ESP_OK) =>
    /\ Registers(s_dsp) = ZeroRegisters
    /\ TargetsComputed(s_dsp, last.arg)

\* C4, amended: every dsp_set_sample_rate call on an initialized engine that
\* returns ESP_OK leaves the EQ and loudness targets equal to those computed
\* from the active preset and the requested rate; when the requested rate
\* differs from the engine's rate it leaves every delay register at zero, and
\* when it is the engine's rate it changes nothing.
C4_RateChangeResets ==
  (last.op = "dsp_set_sample_rate" /\ before.initialized /\ last.ret = ESP_OK) =>
    /\ TargetsComputed(s_dsp, last.arg)
    /\ s_dsp.sample_rate = last.arg
    /\ last.arg # before.sample_rate => Registers(s_dsp) = ZeroRegisters
    /\ last.arg = before.sample_rate => s_dsp = before

\* The rate changes on an engine whose filters hold signal.
C4_Witness ==
  /\ last.op = "dsp_set_sample_rate" /\ before.initialized /\ last.ret = ESP_OK
  /\ last.arg # before.sample_rate
  /\ Registers(before) # ZeroRegisters
  /\ Registers(s_dsp) = ZeroRegisters
  /\ s_dsp.eq_target # before.eq_target

\* C6: before dsp_init, dsp_set_sample_rate and every setter return an error
\* and leave the engine unchanged.
C6_UninitializedRejected ==
  (last.op \in Setters \cup {"dsp_set_sample_rate"} /\ ~before.initialized) =>
    /\ last.ret \in {ESP_ERR_INVALID_STATE, ESP_ERR_INVALID_ARG}
    /\ s_dsp = before

\* A volume-trim call is rejected on the engine as it is before dsp_init.
C6_Witness ==
  /\ last.op = "dsp_set_volume_trim" /\ last.arg = 75
  /\ ~before.initialized
  /\ last.ret = ESP_ERR_INVALID_STATE
  /\ s_dsp = s_dsp_static

\* C7: once initialized, the effective volume never exceeds the cap and is the
\* smaller of the volume trim and the cap, with the trim within 0..100.
C7_EffectiveVolumeCapped ==
  s_dsp.initialized =>
    /\ s_dsp.volume_trim \in 0..100
    /\ dsp_get_effective_volume(s_dsp) <= dsp_get_volume_cap(s_dsp)
    /\ dsp_get_effective_volume(s_dsp) = Min(s_dsp.volume_trim, dsp_get_volume_cap(s_dsp))

\* The trim exceeds the cap, so the cap decides the effective volume.
C7_Witness ==
  /\ s_dsp.initialized
  /\ s_dsp.volume_trim > dsp_get_volume_cap(s_dsp)
  /\ dsp_get_effective_volume(s_dsp) = dsp_get_volume_cap(s_dsp)
  /\ dsp_get_volume_cap(s_dsp) < 100

C9_VolumeCapTable ==
  s_dsp.initialized =>
    /\ dsp_get_volume_cap(s_dsp) =
         (IF s_dsp.preset = DSP_PRESET_NIGHT THEN 100 - 20 ELSE 100)
         - (IF s_dsp.normalizer_enabled THEN DSP_VOLUME_CAP_NORMALIZER_REDUCTION ELSE 0)
    /\ dsp_get_volume_cap(s_dsp) \in 0..100

\* Night with the normalizer on.
C9_Witness ==
  /\ s_dsp.initialized
  /\ s_dsp.preset = DSP_PRESET_NIGHT /\ s_dsp.normalizer_enabled
  /\ dsp_get_volume_cap(s_dsp) = 100 - 20 - DSP_VOLUME_CAP_NORMALIZER_REDUCTION

\* ------------------------------------------------------------------------
\* The device after boot: BLE events, the debounce timer and the audio path
\* ------------------------------------------------------------------------

MaxEvents == 3

\* What the flash may hold at boot: nothing, valid settings, a preset id out of range.
StoredAtBoot ==
  { NVS_NOT_FOUND,
    Stored([preset_id |-> DSP_PRESET_NIGHT, loudness |-> 1,
            config_version |-> NVS_CONFIG_VERSION]),
    Stored([preset_id |-> 7, loudness |-> 0, config_version |-> NVS_CONFIG_VERSION]),
    Stored([preset_id |-> DSP_PRESET_SPEECH, loudness |-> 1, config_version |-> 0]) }

\* Bytes a client writes to the Control characteristic.
ControlCmds == 0..(DSP_CMD_SET_BASS_BOOST + 1)
ControlVals == {0, 1, DSP_PRESET_COUNT, 200}
ControlWrites ==
  {<<DSP_CMD_SET_PRESET>>} \cup {<<cmd, val>> : cmd \in ControlCmds, val \in ControlVals}

\* Bytes a client writes to the Status CCC descriptor.
CccWrites == { <<0, 0>>, <<1, 0>>, <<2, 0>>, <<1>> }

\* esp_timer_get_time(), counted in events.
Now == calls + 1

\* The state app_main leaves: settings loaded, engine initialized and restored,
\* BLE service registered with the persistence callback.
InitBle ==
  \E stored \in StoredAtBoot : \E boot \in BootOutcomes : \E write_ok \in BOOLEAN :
    LET n == nvs_settings_init(s_nvs_static, stored, boot, write_ok)
    IN /\ s_nvs = n.nvs
       /\ nvs_flash = n.stored
       /\ saved_active = NotSaved
       /\ settings_cb_invoked = FALSE
       /\ handler_steps = <<>>
       /\ StaticTasks
       /\ s_dsp = app_main_dsp(n.nvs.settings)
       /\ before = app_main_dsp(n.nvs.settings)
       /\ s_dsp_toggles = s_dsp_toggles_static
       /\ s_ble = [s_ble_static EXCEPT !.settings_cb = "settings_changed_callback"]
       /\ status_value = status_value_static
       /\ notifications = <<>>
       /\ pcm = NULL
       /\ last = Call("app_main", [stored |-> stored, boot |-> boot], ESP_OK)
       /\ calls = 0
       /\ frames = 0

\* What every event does to the bookkeeping variables.
Event(op, arg, ret) ==
  /\ calls < MaxEvents
  /\ last' = Call(op, arg, ret)
  /\ before' = s_dsp
  /\ calls' = calls + 1
  /\ UNCHANGED taskVars

\* ESP_GATTS_CONNECT_EVT (the service advertises while no client is connected).
GattsConnect ==
  /\ ~s_ble.connected
  /\ Event("ESP_GATTS_CONNECT_EVT", 0, ESP_OK)
  /\ s_ble' = [s_ble EXCEPT !.conn_id = 0, !.connected = TRUE,
                            !.last_contact_us = Now, !.galactic_timer_active = TRUE]
  /\ s_dsp' = update_status_value(s_dsp).s
  /\ status_value' = update_status_value(s_dsp).value
  /\ UNCHANGED <<s_dsp_toggles, pcm, notifications, s_nvs, nvs_flash, saved_active,
                 settings_cb_invoked, handler_steps, frames>>

\* ESP_GATTS_DISCONNECT_EVT
GattsDisconnect ==
  /\ s_ble.connected
  /\ Event("ESP_GATTS_DISCONNECT_EVT", 0, ESP_OK)
  /\ s_ble' = [s_ble EXCEPT !.conn_id = 65535, !.connected = FALSE,
                            !.notifications_enabled = FALSE,
                            !.galactic_notifications_enabled = FALSE,
                            !.ota_notifications_enabled = FALSE,
                            !.galactic_timer_active = FALSE]
  /\ UNCHANGED <<s_dsp, s_dsp_toggles, pcm, status_value, notifications, s_nvs,
                 nvs_flash, saved_active, settings_cb_invoked, handler_steps, frames>>

\* ESP_GATTS_WRITE_EVT on the Status CCC descriptor.
GattsWriteStatusCcc(data) ==
  /\ s_ble.connected
  /\ Event("ESP_GATTS_WRITE_EVT.status_ccc", data, ESP_OK)
  /\ s_ble' = [s_ble EXCEPT
                 !.last_contact_us = Now,
                 !.notifications_enabled =
                    IF Len(data) = 2 THEN (data[1] + 256 * data[2] = 1) ELSE @]
  /\ UNCHANGED <<s_dsp, s_dsp_toggles, pcm, status_value, notifications, s_nvs,
                 nvs_flash, saved_active, settings_cb_invoked, handler_steps, frames>>

\* ESP_GATTS_WRITE_EVT on the Control characteristic: handle_control_write.
GattsWriteControl(data, send_ok) ==
  /\ s_ble.connected
  /\ \E r \in {handle_control_write(s_dsp, s_dsp_toggles,
                                     [s_ble EXCEPT !.last_contact_us = Now],
                                     status_value, s_nvs, data, send_ok, Now)} :
        /\ Event("handle_control_write", data, r.ret)
        /\ s_dsp' = r.s
        /\ s_dsp_toggles' = r.t
        /\ s_ble' = r.ble
        /\ status_value' = r.value
        /\ s_nvs' = r.nvs
        /\ settings_cb_invoked' = r.settings_cb_invoked
        /\ handler_steps' = r.steps
        /\ notifications' = notifications \o r.sent
        /\ frames' = IF r.called = "dsp_set_volume_trim" THEN 0 ELSE frames
  /\ UNCHANGED <<pcm, nvs_flash, saved_active>>

\* debounce_timer_callback, when the one-shot timer expires.
DebounceTimer(write_ok) ==
  /\ s_nvs.timer_active
  /\ Event("debounce_timer_callback", write_ok, ESP_OK)
  /\ nvs_flash' = do_save(s_nvs, nvs_flash, write_ok)
  /\ saved_active' = IF s_nvs.initialized /\ write_ok
                     THEN [written |-> TRUE, preset |-> dsp_get_preset(s_dsp),
                           loudness |-> dsp_get_loudness(s_dsp)]
                     ELSE saved_active
  /\ s_nvs' = [s_nvs EXCEPT !.save_pending = FALSE, !.timer_active = FALSE]
  /\ UNCHANGED <<s_dsp, s_dsp_toggles, pcm, s_ble, status_value, notifications,
                 settings_cb_invoked, handler_steps, frames>>

\* bt_app_a2d_data_cb: a buffer of decoded audio run through dsp_process.
A2dpData(samples) ==
  /\ Event("bt_app_a2d_data_cb", samples, ESP_OK)
  /\ \E out \in {IF samples = NULL \/ Len(samples.data) = 0
                  THEN [s |-> s_dsp, samples |-> samples]
                  ELSE dsp_process(s_dsp, samples, Len(samples.data))} :
        /\ s_dsp' = out.s
        /\ pcm' = out.samples
  /\ frames' = frames + FramesOf(s_dsp, samples)
  /\ UNCHANGED <<s_dsp_toggles, s_ble, status_value, notifications, s_nvs, nvs_flash,
                 saved_active, settings_cb_invoked, handler_steps>>

NextBle ==
  \/ GattsConnect
  \/ GattsDisconnect
  \/ \E data \in CccWrites : GattsWriteStatusCcc(data)
  \/ \E data \in ControlWrites : \E send_ok \in BOOLEAN : GattsWriteControl(data, send_ok)
  \/ \E write_ok \in BOOLEAN : DebounceTimer(write_ok)
  \/ \E samples \in PcmBuffers : A2dpData(samples)

SpecBle == InitBle /\ [][NextBle]_vars

\* Preset ids outside the enumeration.
InvalidPresetIds == {DSP_PRESET_COUNT, 7, 200, 255}

\* C5: dsp_set_preset with a preset id >= DSP_PRESET_COUNT returns an error
\* and changes nothing, in every state the device reaches; and a BLE
\* DSP_CMD_SET_PRESET write with such a value leaves the active preset, the
\* EQ targets and the volume gain target (indeed the whole engine but the
\* clipping flag, which the status refresh clears) as they were.
C5_InvalidPresetRejected ==
  /\ \A preset \in InvalidPresetIds :
       /\ dsp_set_preset(s_dsp, preset).ret = ESP_ERR_INVALID_ARG
       /\ dsp_set_preset(s_dsp, preset).s = s_dsp
  /\ ( /\ last.op = "handle_control_write"
       /\ Len(last.arg) >= 2
       /\ last.arg[1] = DSP_CMD_SET_PRESET
       /\ last.arg[2] >= DSP_PRESET_COUNT )
     => /\ s_dsp.preset = before.preset
        /\ s_dsp.eq_target = before.eq_target
        /\ s_dsp.volume_gain_target = before.volume_gain_target
        /\ s_dsp = [before EXCEPT !.clipping_detected = FALSE]

\* A subscribed client writes preset 200 while Night is active: the write is
\* answered with a notification that still reports Night.
C5_Witness ==
  /\ last.op = "handle_control_write"
  /\ last.arg = <<DSP_CMD_SET_PRESET, 200>>
  /\ s_dsp.initialized /\ s_dsp.preset = DSP_PRESET_NIGHT
  /\ Len(notifications) = 1
  /\ notifications[1][2] = DSP_PRESET_NIGHT
  /\ ~s_nvs.save_pending

\* ------------------------------------------------------------------------
\* Settling after dsp_set_volume_trim(0)
\* ------------------------------------------------------------------------

\* Preset or normalizer changes made while the gain settles.
MaxChanges == 1

\* N = ceil(-ln(0.001) / smoothing coefficient): the frames after which a
\* smoothed value is within 0.1% of its target.
SettleFrames(fs) ==
  CASE fs = 16000 -> 3320
    [] fs = 32000 -> 6635
    [] fs = 44100 -> 9143
    [] fs = 48000 -> 9951

\* 0.1% of full scale.
SettleTolerance == ONE \div 1000

\* The audio fed while settling: one buffer of two frames per call.
SettleBuffer == Buffer(<<1000, 1000, -20000, 30000>>)

\* The engine initialized and configured with any preset and normalizer state.
InitSettle ==
  /\ \E preset \in 0..(DSP_PRESET_COUNT - 1) : \E enabled \in BOOLEAN :
       s_dsp = dsp_set_normalizer(
                 dsp_set_preset(dsp_init(I2S_SAMPLE_RATE).s, preset).s, enabled).s
  /\ before = s_dsp
  /\ pcm = NULL
  /\ last = Call("dsp_init", I2S_SAMPLE_RATE, ESP_OK)
  /\ calls = 0
  /\ frames = 0
  /\ StaticBle

SettleCall(op, arg, result) ==
  /\ s_dsp' = result.s
  /\ last' = Call(op, arg, result.ret)
  /\ before' = s_dsp
  /\ calls' = calls + 1
  /\ UNCHANGED pcm
  /\ UNCHANGED bleVars

\* The volume is turned to 0.
SettleVolumeTrimZero ==
  /\ calls = 0
  /\ SettleCall("dsp_set_volume_trim", 0, dsp_set_volume_trim(s_dsp, 0))
  /\ frames' = 0

\* Half-way through the settle time the preset or the normalizer is changed.
SettleChange ==
  /\ calls \in 1..MaxChanges
  /\ frames \in {SettleFrames(s_dsp.sample_rate) \div 2,
                 SettleFrames(s_dsp.sample_rate) \div 2 + 1}
  /\ \/ SettleCall("dsp_set_preset", (s_dsp.preset + 1) % DSP_PRESET_COUNT,
                   dsp_set_preset(s_dsp, (s_dsp.preset + 1) % DSP_PRESET_COUNT))
     \/ SettleCall("dsp_set_normalizer", ~s_dsp.normalizer_enabled,
                   dsp_set_normalizer(s_dsp, ~s_dsp.normalizer_enabled))
  /\ UNCHANGED frames

\* Audio keeps flowing until the settle time has passed.
SettleProcess ==
  /\ calls >= 1
  /\ frames < SettleFrames(s_dsp.sample_rate)
  /\ \E out \in {dsp_process(s_dsp, SettleBuffer, Len(SettleBuffer.data))} :
        /\ s_dsp' = out.s
        /\ pcm' = out.samples
  /\ last' = Call("dsp_process", SettleBuffer, ESP_OK)
  /\ before' = s_dsp
  /\ frames' = frames + FramesOf(s_dsp, SettleBuffer)
  /\ UNCHANGED calls
  /\ UNCHANGED bleVars

NextSettle ==
  \/ SettleVolumeTrimZero
  \/ SettleChange
  \/ SettleProcess

SpecSettle == InitSettle /\ [][NextSettle]_vars

\* C10: once the volume trim is 0 the volume gain target is 0, whatever the
\* preset and normalizer state and whatever preset or normalizer changes
\* follow, and after the smoothing settle time of processed frames the
\* running volume gain is within 0.1% of silence.
C10_VolumeZeroSettlesToSilence ==
  (s_dsp.initialized /\ s_dsp.volume_trim = 0 /\ calls >= 1) =>
    /\ s_dsp.volume_gain_target = 0
    /\ s_dsp.volume_gain >= 0
    /\ frames >= SettleFrames(s_dsp.sample_rate) => s_dsp.volume_gain <= SettleTolerance

\* The settle time has passed, with a preset or normalizer change on the way,
\* and the gain that started above the tolerance is now inside it.
C10_Witness ==
  /\ s_dsp.volume_trim = 0
  /\ calls = 1 + MaxChanges
  /\ frames >= SettleFrames(s_dsp.sample_rate)
  /\ s_dsp.volume_gain <= SettleTolerance
  /\ s_dsp.volume_gain_target = 0


\* ------------------------------------------------------------------------
\* dsp_process_float: the planar float entry point
\* ------------------------------------------------------------------------

\* The gain stages of dsp_process_float multiply by the running gain as it is.
FloatGain(f, g) == Frame(f.s, MulF(f.left, g), MulF(f.right, g))

\* Preset EQ bands b..DSP_NUM_EQ_BANDS with the running coefficients as they are.
RECURSIVE FloatEqStage(_, _)
FloatEqBand(f, b, l, r) ==
  FloatEqStage(Frame([f.s EXCEPT !.eq_state[b] = <<l.s, r.s>>], l.out, r.out), b + 1)

FloatEqStage(f, b) ==
  IF b > DSP_NUM_EQ_BANDS THEN f
  ELSE FloatEqBand(f, b,
                   biquad_process(f.s.eq_coeffs[b], f.s.eq_state[b][1], f.left),
                   biquad_process(f.s.eq_coeffs[b], f.s.eq_state[b][2], f.right))

\* Loudness bands b..DSP_NUM_LOUDNESS_BANDS in series with the signal.
RECURSIVE FloatLoudnessBands(_, _)
FloatLoudnessBand(f, b, l, r) ==
  FloatLoudnessBands(Frame([f.s EXCEPT !.loudness_state[b] = <<l.s, r.s>>], l.out, r.out),
                     b + 1)

FloatLoudnessBands(f, b) ==
  IF b > DSP_NUM_LOUDNESS_BANDS THEN f
  ELSE FloatLoudnessBand(f, b,
         biquad_process(f.s.loudness_coeffs[b], f.s.loudness_state[b][1], f.left),
         biquad_process(f.s.loudness_coeffs[b], f.s.loudness_state[b][2], f.right))

FloatLoudnessStage(f) ==
  IF f.s.loudness_gain > LOUDNESS_GATE THEN FloatLoudnessBands(f, 1) ELSE f

\* The limiter of dsp_process_float: envelope and gain, limiter_active untouched.
FloatLimiterGain(f, env) ==
  FloatGain(Frame([f.s EXCEPT !.limiter = [envelope |-> env,
                                           gain |-> IF env > f.s.limiter_threshold
                                                    THEN DivF(f.s.limiter_threshold, env)
                                                    ELSE ONE]],
                  f.left, f.right),
            IF env > f.s.limiter_threshold THEN DivF(f.s.limiter_threshold, env) ELSE ONE)

FloatLimiterStage(f) ==
  FloatLimiterGain(f, Envelope(f.s.limiter.envelope, Max(Abs(f.left), Abs(f.right)),
                               f.s.limiter_attack_coeff, f.s.limiter_release_coeff))

FloatVolumeStage(f) == FloatGain(f, f.s.volume_gain)
FloatDuckStage(f) == FloatGain(f, f.s.audio_duck_gain)
FloatMuteStage(f) == FloatGain(f, f.s.mute_gain)

\* fmaxf(-1.0f, fminf(1.0f, x))
ClampUnit(x) == Max(-ONE, Min(ONE, x))

\* The body of dsp_process_float's loop for one stereo frame.
ProcessFrameFloat(d, l, r) ==
  FloatMuteStage(FloatDuckStage(FloatVolumeStage(FloatLimiterStage(NormalizerStage(
    FloatLoudnessStage(FloatEqStage(HpfStage(FloatGain(Frame(d, l, r), d.pre_gain)), 1)))))))

\* Frames i..num_frames-1 of the planar buffers, processed in place.
RECURSIVE ProcessFramesFloat(_, _, _, _, _)
ProcessFramesFloatFrom(f, left, right, i, num_frames) ==
  IF Len(left.data) >= 0 /\ Len(right.data) >= 0 /\ f.s.initialized
  THEN ProcessFramesFloat(f.s, left, right, i + 1, num_frames)
  ELSE [s |-> f.s, left |-> left, right |-> right]

ProcessFramesFloatStep(f, left, right, i, num_frames) ==
  ProcessFramesFloatFrom(f, [left EXCEPT !.data[i + 1] = ClampUnit(f.left)],
                         [right EXCEPT !.data[i + 1] = ClampUnit(f.right)], i, num_frames)

ProcessFramesFloat(d, left, right, i, num_frames) ==
  IF i >= num_frames THEN [s |-> d, left |-> left, right |-> right]
  ELSE ProcessFramesFloatStep(ProcessFrameFloat(d, left.data[i + 1], right.data[i + 1]),
                              left, right, i, num_frames)

dsp_process_float(d, left, right, num_frames) ==
  IF ~d.initialized \/ left = NULL \/ right = NULL \/ num_frames = 0
  THEN [s |-> d, left |-> left, right |-> right]
  ELSE ProcessFramesFloat(d, left, right, 0, num_frames)

\* ------------------------------------------------------------------------
\* The engine driven through both process entry points
\* ------------------------------------------------------------------------

MaxBothCalls == 4

FullScale == <<32767, -32768>>
TwoFrames == <<1000, 1000, -20000, 30000>>

\* The channel (1 left, 2 right) of an interleaved 16-bit buffer as floats.
RECURSIVE Planar(_, _, _)
Planar(data, ch, i) ==
  IF i * 2 + ch > Len(data) THEN <<>>
  ELSE <<INT16_TO_FLOAT(data[i * 2 + ch])>> \o Planar(data, ch, i + 1)

LeftOf(samples) == Buffer(Planar(samples.data, 1, 0))
RightOf(samples) == Buffer(Planar(samples.data, 2, 0))

\* (samples, num_samples) pairs handed to dsp_process.
IntInputs ==
  { <<NULL, 2>>, <<Buffer(FullScale), 0>>, <<Buffer(FullScale), 1>>,
    <<Buffer(FullScale), 2>>, <<Buffer(TwoFrames), 4>> }

\* (left, right, num_frames) triples handed to dsp_process_float.
FloatInputs ==
  { <<NULL, RightOf(Buffer(FullScale)), 1>>, <<LeftOf(Buffer(FullScale)), NULL, 1>>,
    <<LeftOf(Buffer(FullScale)), RightOf(Buffer(FullScale)), 0>>,
    <<LeftOf(Buffer(FullScale)), RightOf(Buffer(FullScale)), 1>>,
    <<LeftOf(Buffer(TwoFrames)), RightOf(Buffer(TwoFrames)), 2>> }

\* The input is one of those the entry points return on at once.
Rejected(d, in) ==
  \/ ~d.initialized
  \/ in.num_frames = 0
  \/ in.samples = NULL
  \/ in.left = NULL
  \/ in.right = NULL

DspProcessCall(samples, num_samples) ==
  /\ \E out \in {dsp_process(s_dsp, samples, num_samples)} :
       /\ s_dsp' = out.s
       /\ pcm' = out.samples
  /\ last' = Call("dsp_process",
                  [samples |-> samples, left |-> samples, right |-> samples,
                   num_samples |-> num_samples, num_frames |-> num_samples \div 2],
                  ESP_OK)
  /\ before' = s_dsp
  /\ calls' = calls + 1
  /\ frames' = frames + (IF ~s_dsp.initialized \/ samples = NULL THEN 0
                         ELSE num_samples \div 2)
  /\ UNCHANGED bleVars

DspProcessFloat(left, right, num_frames) ==
  /\ \E out \in {dsp_process_float(s_dsp, left, right, num_frames)} :
       /\ s_dsp' = out.s
       /\ pcm' = [left |-> out.left, right |-> out.right]
  /\ last' = Call("dsp_process_float",
                  [samples |-> left, left |-> left, right |-> right,
                   num_samples |-> 2 * num_frames, num_frames |-> num_frames],
                  ESP_OK)
  /\ before' = s_dsp
  /\ calls' = calls + 1
  /\ frames' = frames + (IF ~s_dsp.initialized \/ left = NULL \/ right = NULL THEN 0
                         ELSE num_frames)
  /\ UNCHANGED bleVars

\* A call is made while the bound on calls allows it.
MayCall == calls < MaxBothCalls

NextBoth ==
  \/ MayCall /\ \E sample_rate \in SampleRates : DspInit(sample_rate)
  \/ MayCall /\ \E sample_rate \in SampleRates : DspSetSampleRate(sample_rate)
  \/ MayCall /\ \E preset \in PresetArgs : DspSetPreset(preset)
  \/ MayCall /\ \E enabled \in BOOLEAN : DspSetLoudness(enabled)
  \/ MayCall /\ \E muted \in BOOLEAN : DspSetMute(muted)
  \/ MayCall /\ \E enabled \in BOOLEAN : DspSetAudioDuck(enabled)
  \/ MayCall /\ \E enabled \in BOOLEAN : DspSetNormalizer(enabled)
  \/ MayCall /\ \E value \in VolumeArgs : DspSetVolumeTrim(value)
  \/ MayCall /\ DspGetStatus
  \/ MayCall /\ \E in \in IntInputs : DspProcessCall(in[1], in[2])
  \/ MayCall /\ \E in \in FloatInputs : DspProcessFloat(in[1], in[2], in[3])

SpecBoth == Init /\ [][NextBoth]_vars

\* ------------------------------------------------------------------------
\* Convergence of the smoothed values after one target change
\* ------------------------------------------------------------------------

ProcessOps == {"dsp_process", "dsp_process_float"}

\* The target changes tried: (setter, argument).
ConvergeChanges ==
  { <<"dsp_set_mute", TRUE>>, <<"dsp_set_loudness", TRUE>>,
    <<"dsp_set_audio_duck", TRUE>>, <<"dsp_set_volume_trim", 0>>,
    <<"dsp_set_preset", DSP_PRESET_FULL>> }

InitConverge ==
  /\ s_dsp = dsp_init(I2S_SAMPLE_RATE).s
  /\ before = dsp_init(I2S_SAMPLE_RATE).s
  /\ pcm = NULL
  /\ last = Call("dsp_init", I2S_SAMPLE_RATE, ESP_OK)
  /\ calls = 0
  /\ frames = 0
  /\ StaticBle

\* One setter moves a target.
ConvergeChange(op, arg) ==
  /\ calls = 0
  /\ SettleCall(op, arg, ApplySetter(op, s_dsp, arg))
  /\ frames' = 0

\* Audio then flows through one entry point, with no further setter call,
\* until the settle time has passed.
ConvergeProcess ==
  /\ calls >= 1
  /\ last.op \in Setters \cup {"dsp_process"}
  /\ frames < SettleFrames(s_dsp.sample_rate)
  /\ DspProcessCall(Buffer(TwoFrames), Len(TwoFrames))

ConvergeProcessFloat ==
  /\ calls >= 1
  /\ last.op \in Setters \cup {"dsp_process_float"}
  /\ frames < SettleFrames(s_dsp.sample_rate)
  /\ DspProcessFloat(LeftOf(Buffer(TwoFrames)), RightOf(Buffer(TwoFrames)), 2)

NextConverge ==
  \/ \E c \in ConvergeChanges : ConvergeChange(c[1], c[2])
  \/ ConvergeProcess
  \/ ConvergeProcessFloat

SpecConverge == InitConverge /\ [][NextConverge]_vars

\* The smoothed values as one flat sequence, and their targets in the same order.
CoeffSeq(c) == <<c.b0, c.b1, c.b2, c.a1, c.a2>>

SmoothedValues(d) ==
  << d.pre_gain, d.loudness_gain, d.volume_gain, d.audio_duck_gain, d.mute_gain >>
  \o CoeffSeq(d.eq_coeffs[1]) \o CoeffSeq(d.eq_coeffs[2])
  \o CoeffSeq(d.eq_coeffs[3]) \o CoeffSeq(d.eq_coeffs[4])
  \o CoeffSeq(d.loudness_coeffs[1]) \o CoeffSeq(d.loudness_coeffs[2])

SmoothedTargets(d) ==
  << d.pre_gain_target, d.loudness_gain_target, d.volume_gain_target,
     d.audio_duck_gain_target, d.mute_gain_target >>
  \o CoeffSeq(d.eq_target[1]) \o CoeffSeq(d.eq_target[2])
  \o CoeffSeq(d.eq_target[3]) \o CoeffSeq(d.eq_target[4])
  \o CoeffSeq(d.loudness_target[1]) \o CoeffSeq(d.loudness_target[2])

\* c lies between b and the target t: a move toward t without overshoot.
Toward(b, c, t) == IF b <= t THEN b <= c /\ c <= t ELSE t <= c /\ c <= b

\* 0.1% of the target, and of full scale for the gains that range over [0, 1].
ConvergeTolerance(t) == Max(ONE, Abs(t)) \div 1000

\* C11: after a target change and with no further setter call, processing
\* frames through either entry point moves every smoothed value (the five
\* scalar gains and every coefficient of every EQ and loudness filter) toward
\* its target without overshoot, and after N = ceil(-ln(0.001)/smooth_coeff)
\* frames every one of them is within 0.1% of its target.
C11_SmoothedValuesConverge ==
  (calls >= 1 /\ last.op \in ProcessOps) =>
    \A k \in 1..Len(SmoothedValues(s_dsp)) :
      /\ Toward(SmoothedValues(before)[k], SmoothedValues(s_dsp)[k],
                SmoothedTargets(s_dsp)[k])
      /\ frames >= SettleFrames(s_dsp.sample_rate) =>
           Abs(SmoothedValues(s_dsp)[k] - SmoothedTargets(s_dsp)[k])
             <= ConvergeTolerance(SmoothedTargets(s_dsp)[k])

\* ------------------------------------------------------------------------
\* Status flags
\* ------------------------------------------------------------------------

\* flags & bit, for a single-bit mask.
FlagSet(flags, bit) == (flags \div bit) % 2 = 1

\* C12: once clipping_detected is raised it stays set across every call other
\* than dsp_get_status (and dsp_init, which rebuilds the engine); only
\* dsp_process raises it; dsp_get_status reports DSP_FLAG_CLIPPING exactly when
\* the flag was set, clears it, and a second read right after reports it clear.
C12_ClippingStickyUntilRead ==
  /\ (before.clipping_detected /\ last.op \notin {"dsp_get_status", "dsp_init"}) =>
       s_dsp.clipping_detected
  /\ (s_dsp.clipping_detected /\ ~before.clipping_detected) => last.op = "dsp_process"
  /\ last.op = "dsp_get_status" =>
       /\ FlagSet(last.arg.flags, DSP_FLAG_CLIPPING) <=> before.clipping_detected
       /\ ~s_dsp.clipping_detected
       /\ ~FlagSet(dsp_get_status(s_dsp).status.flags, DSP_FLAG_CLIPPING)

\* A status read finds the flag raised by earlier audio, reports and clears it.
C12_Witness ==
  /\ last.op = "dsp_get_status"
  /\ before.clipping_detected
  /\ FlagSet(last.arg.flags, DSP_FLAG_CLIPPING)
  /\ ~s_dsp.clipping_detected

\* C13: the DSP_FLAG_LIMITER_ACTIVE bit of dsp_get_status().flags is set
\* exactly when the limiter gain left by the last processed frame is below
\* 1.0; in particular a status read right after dsp_init reports it clear.
C13_LimiterBitTracksGainReduction ==
  /\ (last.op = "dsp_get_status" /\ before.initialized) =>
       (FlagSet(last.arg.flags, DSP_FLAG_LIMITER_ACTIVE) <=> before.limiter.gain < ONE)
  /\ (last.op = "dsp_init" /\ last.ret = ESP_OK) =>
       ~FlagSet(dsp_get_status(s_dsp).status.flags, DSP_FLAG_LIMITER_ACTIVE)

\* ------------------------------------------------------------------------
\* Loud audio: a full-scale 120 Hz square wave
\* ------------------------------------------------------------------------

MaxLoudFrames == 3200

\* Frames per half period of the square wave at 44.1 kHz.
LoudHalfPeriod == 184

\* The next frame of the square wave.
LoudFrame ==
  IF (frames \div LoudHalfPeriod) % 2 = 0 THEN <<32767, 32767>> ELSE <<-32768, -32768>>

\* Engine configurations the wave is played through: (preset, loudness,
\* normalizer, mute, audio duck, volume trim).
LoudConfigs ==
  { <<DSP_PRESET_FULL, TRUE, FALSE, FALSE, FALSE, 100>>,
    <<DSP_PRESET_FULL, TRUE, FALSE, TRUE, TRUE, 0>>,
    <<DSP_PRESET_FULL, TRUE, TRUE, FALSE, FALSE, 100>>,
    <<DSP_PRESET_OFFICE, FALSE, FALSE, FALSE, FALSE, 100>> }

Configured(c) ==
  dsp_set_volume_trim(
    dsp_set_audio_duck(
      dsp_set_mute(
        dsp_set_normalizer(
          dsp_set_loudness(
            dsp_set_preset(dsp_init(I2S_SAMPLE_RATE).s, c[1]).s, c[2]).s, c[3]).s,
        c[4]).s, c[5]).s, c[6]).s

InitLoud ==
  /\ \E c \in LoudConfigs : s_dsp = Configured(c)
  /\ before = s_dsp
  /\ pcm = NULL
  /\ last = Call("dsp_init", I2S_SAMPLE_RATE, ESP_OK)
  /\ calls = 0
  /\ frames = 0
  /\ StaticBle

LoudProcess ==
  /\ frames < MaxLoudFrames
  /\ DspProcessCall(Buffer(LoudFrame), 2)

NextLoud == LoudProcess

SpecLoud == InitLoud /\ [][NextLoud]_vars

\* The frame as it enters the limiter stage of dsp_process.
LimiterInput(d, left, right) ==
  NormalizerStage(LoudnessStage(EqStage(HpfStage(PreGainStage(
    Frame(d, INT16_TO_FLOAT(left), INT16_TO_FLOAT(right)))), 1)))

LimiterPeak(f) == Max(Abs(f.left), Abs(f.right))

\* C14: whatever the preset, loudness, normalizer, mute, duck and volume
\* settings, every frame dsp_process handles goes through the limiter: the
\* envelope follows the peak of the frame entering the stage, and afterwards
\* the limiter gain is in (0, 1.0], equal to ceiling/envelope when the
\* envelope exceeds the ceiling and 1.0 otherwise, with limiter_active true
\* exactly when the gain is below 1.0.
C14_LimiterRunsOnEveryFrame ==
  (last.op = "dsp_process" /\ before.initialized /\ last.arg.num_frames = 1) =>
    /\ s_dsp.limiter.envelope =
         Envelope(before.limiter.envelope,
                  LimiterPeak(LimiterInput(before, last.arg.samples.data[1],
                                           last.arg.samples.data[2])),
                  before.limiter_attack_coeff, before.limiter_release_coeff)
    /\ s_dsp.limiter.gain > 0 /\ s_dsp.limiter.gain <= ONE
    /\ s_dsp.limiter.gain =
         (IF s_dsp.limiter.envelope > s_dsp.limiter_threshold
          THEN DivF(s_dsp.limiter_threshold, s_dsp.limiter.envelope) ELSE ONE)
    /\ s_dsp.limiter_active <=> s_dsp.limiter.gain < ONE
    /\ s_dsp.limiter_active <=> s_dsp.limiter.envelope > s_dsp.limiter_threshold

\* The limiter is reducing gain on a muted, ducked engine at volume 0.
C14_Witness ==
  /\ last.op = "dsp_process" /\ last.arg.num_frames = 1
  /\ s_dsp.muted /\ s_dsp.audio_duck_enabled /\ s_dsp.volume_trim = 0
  /\ s_dsp.limiter.envelope > s_dsp.limiter_threshold
  /\ s_dsp.limiter.gain < ONE
  /\ s_dsp.limiter_active

\* C15: every dsp_set_normalizer call that changes the enabled state, in
\* either direction, leaves the normalizer envelope at 0 and the normalizer
\* gain at 1.0.
C15_NormalizerToggleResets ==
  (/\ last.op = "dsp_set_normalizer" /\ last.ret = ESP_OK
   /\ before.initialized /\ last.arg # before.normalizer_enabled) =>
    /\ s_dsp.normalizer_envelope = 0
    /\ s_dsp.normalizer_gain = ONE

\* ------------------------------------------------------------------------
\* The two process entry points
\* ------------------------------------------------------------------------

\* C16: dsp_process and dsp_process_float called on an uninitialized engine,
\* with a NULL buffer or with a zero length leave the engine and the buffers
\* exactly as they were.
C16_RejectedInputIsNoOp ==
  (last.op \in ProcessOps /\ Rejected(before, last.arg)) =>
    /\ s_dsp = before
    /\ last.op = "dsp_process" => pcm = last.arg.samples
    /\ last.op = "dsp_process_float" =>
         pcm = [left |-> last.arg.left, right |-> last.arg.right]

\* dsp_process_float is handed a NULL right channel while the filters of an
\* initialized engine hold signal.
C16_Witness ==
  /\ last.op = "dsp_process_float"
  /\ before.initialized
  /\ last.arg.left # NULL /\ last.arg.right = NULL /\ last.arg.num_frames > 0
  /\ Registers(before) # ZeroRegisters
  /\ s_dsp = before

\* The state the process contract speaks of: the smoothed gains and
\* coefficients, the two envelopes and the two flags.
ProcessState(d) ==
  [ currents |-> Currents(d),
    normalizer_envelope |-> d.normalizer_envelope,
    limiter_envelope |-> d.limiter.envelope,
    limiter_active |-> d.limiter_active,
    clipping_detected |-> d.clipping_detected ]

\* C17: started from the same engine state and fed the same frames,
\* dsp_process and dsp_process_float leave the same smoothed gains and
\* coefficients, envelopes, limiter_active and clipping_detected.
C17_EntryPointsAgree ==
  /\ (last.op = "dsp_process" /\ ~Rejected(before, last.arg)) =>
       ProcessState(s_dsp) =
         ProcessState(dsp_process_float(before, LeftOf(last.arg.samples),
                                        RightOf(last.arg.samples),
                                        last.arg.num_frames).s)
  /\ \A in \in IntInputs :
       (last.op = "dsp_process_float" /\ ~Rejected(before, last.arg)
        /\ last.arg.left = LeftOf(in[1]) /\ last.arg.right = RightOf(in[1])
        /\ last.arg.num_frames = in[2] \div 2) =>
         ProcessState(s_dsp) = ProcessState(dsp_process(before, in[1], in[2]).s)

\* ------------------------------------------------------------------------
\* Restarts: the device reset and app_main run again on what flash holds
\* ------------------------------------------------------------------------

dsp_get_audio_duck(d) == d.audio_duck_enabled

\* A reset (power cycle, watchdog, esp_restart) followed by app_main: every
\* static is back at its initializer, only the flash contents carry over.  A
\* debounce timer that was running is gone with the rest of RAM.
Restart(boot, write_ok) ==
  \E n \in {nvs_settings_init(s_nvs_static, nvs_flash, boot, write_ok)} :
    /\ s_nvs' = n.nvs
    /\ nvs_flash' = n.stored
    /\ s_dsp' = app_main_dsp(n.nvs.settings)
    /\ s_dsp_toggles' = s_dsp_toggles_static
    /\ s_ble' = [s_ble_static EXCEPT !.settings_cb = "settings_changed_callback"]
    /\ status_value' = status_value_static
    /\ notifications' = <<>>
    /\ pcm' = NULL
    /\ last' = Call("app_main", [stored |-> nvs_flash, boot |-> boot], ESP_OK)
    /\ before' = s_dsp
    /\ calls' = 0
    /\ frames' = 0
    /\ settings_cb_invoked' = FALSE
    /\ handler_steps' = <<>>
    /\ UNCHANGED saved_active
    /\ UNCHANGED taskVars

\* Control writes between restarts: the persisted preset and loudness, the
\* audio duck, a rejected preset value, and mute and volume, which request a
\* save without changing what is saved.
RestartWrites ==
  { <<DSP_CMD_SET_PRESET, DSP_PRESET_OFFICE>>, <<DSP_CMD_SET_PRESET, DSP_PRESET_FULL>>,
    <<DSP_CMD_SET_PRESET, DSP_PRESET_COUNT>>,
    <<DSP_CMD_SET_LOUDNESS, 0>>, <<DSP_CMD_SET_LOUDNESS, 1>>,
    <<DSP_CMD_SET_AUDIO_DUCK, 0>>, <<DSP_CMD_SET_AUDIO_DUCK, 1>>,
    <<DSP_CMD_SET_MUTE, 1>>, <<DSP_CMD_SET_VOLUME, 0>> }

NextRestart ==
  \/ GattsConnect
  \/ GattsDisconnect
  \/ \E data \in CccWrites : GattsWriteStatusCcc(data)
  \/ \E data \in RestartWrites : \E send_ok \in BOOLEAN : GattsWriteControl(data, send_ok)
  \/ \E write_ok \in BOOLEAN : DebounceTimer(write_ok)
  \/ \E samples \in PcmBuffers : A2dpData(samples)
  \/ \E boot \in BootOutcomes : \E write_ok \in BOOLEAN : Restart(boot, write_ok)

SpecRestart == InitBle /\ [][NextRestart]_vars

\* C18: after the boot sequence the audio duck is off and the duck gain target
\* is 1.0, whatever the engine's duck state was before the restart and
\* whatever flash holds.
C18_AudioDuckResetByRestart ==
  last.op = "app_main" =>
    /\ ~dsp_get_audio_duck(s_dsp)
    /\ s_dsp.audio_duck_gain_target = ONE

\* A restart of a device whose audio duck had been switched on by a control
\* write.
C18_Witness ==
  /\ last.op = "app_main"
  /\ dsp_get_audio_duck(before) /\ before.audio_duck_gain_target < ONE
  /\ ~dsp_get_audio_duck(s_dsp)

\* app_main read the stored settings: nvs_open and the reads succeeded.
BootReadFlash == last.op = "app_main" /\ last.arg.boot \in {"ok", "timer_failed"}

\* C19: after a restart that follows a written debounced save, and in which
\* the flash is read, dsp_get_preset and dsp_get_loudness return the values
\* that were active in the engine when that save was written.
C19_PersistenceRoundTrip ==
  (BootReadFlash /\ saved_active.written) =>
    /\ dsp_get_preset(s_dsp) = saved_active.preset
    /\ dsp_get_loudness(s_dsp) = saved_active.loudness

\* A restart brings back the preset and the loudness setting a client chose
\* over BLE and that a debounced save wrote.
C19_Witness ==
  /\ BootReadFlash /\ saved_active.written
  /\ last.arg.stored.found
  /\ last.arg.stored.preset_id = DSP_PRESET_FULL /\ last.arg.stored.loudness = 1
  /\ dsp_get_preset(s_dsp) = DSP_PRESET_FULL /\ dsp_get_loudness(s_dsp)

\* The commands whose case in handle_control_write sets settings_changed.
PersistedCmds ==
  { DSP_CMD_SET_PRESET, DSP_CMD_SET_LOUDNESS, DSP_CMD_SET_MUTE, DSP_CMD_SET_NORMALIZER,
    DSP_CMD_SET_VOLUME, DSP_CMD_SET_BASS_BOOST }

\* The control write is one for which nothing is to be persisted: shorter than
\* 2 bytes, audio duck, bypass, GET_STATUS, a preset value out of range or an
\* unknown command.
NotPersisted(data) ==
  \/ Len(data) < 2
  \/ data[1] \in {DSP_CMD_SET_AUDIO_DUCK, DSP_CMD_SET_BYPASS, DSP_CMD_GET_STATUS}
  \/ data[1] \notin DSP_CMD_SET_PRESET..DSP_CMD_SET_BASS_BOOST
  \/ data[1] = DSP_CMD_SET_PRESET /\ data[2] >= DSP_PRESET_COUNT

\* C20: handle_control_write invokes the settings-changed callback only for
\* preset (value in range), loudness, mute, normalizer, volume and bass-boost
\* commands; for an audio-duck or bypass command, GET_STATUS, an out-of-range
\* preset value, an unknown command or a write shorter than 2 bytes it does
\* not invoke it.
C20_CallbackOnlyForPersistedCommands ==
  last.op = "handle_control_write" =>
    /\ settings_cb_invoked =>
         /\ Len(last.arg) >= 2
         /\ last.arg[1] \in PersistedCmds
         /\ last.arg[1] = DSP_CMD_SET_PRESET => last.arg[2] < DSP_PRESET_COUNT
    /\ NotPersisted(last.arg) => ~settings_cb_invoked

\* An audio-duck write switched the duck on and no save was requested.
C20_Witness ==
  /\ last.op = "handle_control_write"
  /\ last.arg = <<DSP_CMD_SET_AUDIO_DUCK, 1>>
  /\ dsp_get_audio_duck(s_dsp) /\ ~dsp_get_audio_duck(before)
  /\ s_ble.settings_cb # "NULL"
  /\ ~settings_cb_invoked
  /\ ~s_nvs.save_pending

\* ------------------------------------------------------------------------
\* The loudness overlay in dsp_process
\* ------------------------------------------------------------------------

\* The frame as it enters the loudness stage of dsp_process.
LoudnessInput(d, left, right) ==
  EqStage(HpfStage(PreGainStage(Frame(d, INT16_TO_FLOAT(left), INT16_TO_FLOAT(right)))), 1)

\* The two loudness biquads evaluated on frame f, and what dsp_process makes of f.
LoudnessAdvanced(f, after) ==
  /\ after.loudness_coeffs = LoudnessBandsStage(f, 1).s.loudness_coeffs
  /\ after.loudness_state = LoudnessBandsStage(f, 1).s.loudness_state

DryWhenBlendZero(f) ==
  LoudnessStage(f).s.loudness_gain = 0 =>
    LoudnessStage(f).left = f.left /\ LoudnessStage(f).right = f.right

\* C25: on every frame dsp_process handles, whatever the loudness blend gain,
\* the two loudness biquads are evaluated: their coefficients have moved one
\* smoothing step toward the targets and their delay registers hold the
\* result of filtering the frame; and with blend gain 0 the stage's output is
\* the dry signal.
C25_LoudnessEvaluatedEveryFrame ==
  (last.op = "dsp_process" /\ before.initialized /\ last.arg # NULL
   /\ Len(last.arg.data) = 2) =>
    /\ LoudnessAdvanced(LoudnessInput(before, last.arg.data[1], last.arg.data[2]), s_dsp)
    /\ DryWhenBlendZero(LoudnessInput(before, last.arg.data[1], last.arg.data[2]))

\* ------------------------------------------------------------------------
\* Mute, audio duck and loudness
\* ------------------------------------------------------------------------

\* The normalizer's flag and running state.
NormalizerState(d) == <<d.normalizer_enabled, d.normalizer_envelope, d.normalizer_gain>>

\* Engine d with the enable flag and the gain target of setter op taken from e.
WithOwnFields(op, d, e) ==
  CASE op = "dsp_set_mute" ->
         [d EXCEPT !.muted = e.muted, !.mute_gain_target = e.mute_gain_target]
    [] op = "dsp_set_audio_duck" ->
         [d EXCEPT !.audio_duck_enabled = e.audio_duck_enabled,
                   !.audio_duck_gain_target = e.audio_duck_gain_target]
    [] op = "dsp_set_loudness" ->
         [d EXCEPT !.loudness_enabled = e.loudness_enabled,
                   !.loudness_gain_target = e.loudness_gain_target]

\* C26: a call of dsp_set_mute, dsp_set_audio_duck or dsp_set_loudness changes
\* nothing in the engine but its own enable flag and its own gain target; the
\* volume gain target, the volume cap, the preset, the EQ targets and the
\* normalizer state are as before the call.
C26_TogglesChangeOnlyOwnFields ==
  last.op \in {"dsp_set_mute", "dsp_set_audio_duck", "dsp_set_loudness"} =>
    /\ s_dsp = WithOwnFields(last.op, before, s_dsp)
    /\ s_dsp.volume_gain_target = before.volume_gain_target
    /\ dsp_get_volume_cap(s_dsp) = dsp_get_volume_cap(before)
    /\ dsp_get_effective_volume(s_dsp) = dsp_get_effective_volume(before)
    /\ s_dsp.preset = before.preset
    /\ s_dsp.eq_target = before.eq_target
    /\ NormalizerState(s_dsp) = NormalizerState(before)

\* The audio duck is switched on while the normalizer is tracking audio.
C26_Witness ==
  /\ last.op = "dsp_set_audio_duck" /\ last.arg = TRUE /\ last.ret = ESP_OK
  /\ s_dsp.audio_duck_enabled /\ ~before.audio_duck_enabled
  /\ s_dsp.audio_duck_gain_target < ONE
  /\ before.normalizer_enabled /\ before.normalizer_envelope > 0

\* ------------------------------------------------------------------------
\* The active preset
\* ------------------------------------------------------------------------

\* The indices of preset_params and preset_names.
DefinedPresets == 0..(DSP_PRESET_COUNT - 1)

\* C28: in every state the device reaches, through boots on any flash
\* contents (a stored preset id out of range included), BLE control writes
\* and restarts, the engine's active preset is one of the 4 defined presets,
\* so that preset_params[preset] and preset_names[preset] are in bounds; the
\* preset byte of the Status value is in range as well.
C28_ActivePresetDefined ==
  /\ s_dsp.preset \in DefinedPresets
  /\ dsp_get_preset(s_dsp) \in DefinedPresets
  /\ dsp_get_status(s_dsp).status.preset \in DefinedPresets
  /\ status_value[2] \in DefinedPresets

\* The device booted on a stored preset id of 7, which is still in the
\* settings cache, and a client then wrote a preset value out of range.
C28_Witness ==
  /\ last.op = "handle_control_write"
  /\ last.arg = <<DSP_CMD_SET_PRESET, DSP_PRESET_COUNT>>
  /\ s_nvs.settings.preset_id = 7
  /\ s_dsp.preset = DSP_PRESET_OFFICE

\* ------------------------------------------------------------------------
\* Targets and configuration
\* ------------------------------------------------------------------------

\* C29: once dsp_init has run, after every completed call the EQ target
\* coefficients of every band are those computed from the active preset's band
\* parameters at the engine's current sample rate, and the loudness targets
\* are those computed from the loudness table at that rate.
C29_TargetsMatchConfiguration ==
  s_dsp.initialized =>
    /\ \A b \in 1..DSP_NUM_EQ_BANDS :
         s_dsp.eq_target[b] = calc_eq_band(s_dsp.preset, b, s_dsp.sample_rate)
    /\ \A b \in 1..DSP_NUM_LOUDNESS_BANDS :
         s_dsp.loudness_target[b] = calc_loudness_band(b, s_dsp.sample_rate)

\* The sample rate changed after a preset change: the targets are those of
\* the new preset at the new rate and of no other combination.
C29_Witness ==
  /\ last.op = "dsp_set_sample_rate" /\ last.ret = ESP_OK
  /\ s_dsp.sample_rate # before.sample_rate
  /\ s_dsp.preset = DSP_PRESET_FULL
  /\ s_dsp.eq_target # before.eq_target
  /\ s_dsp.eq_target # EqTargets(DSP_PRESET_OFFICE, s_dsp.sample_rate)
  /\ s_dsp.loudness_target # before.loudness_target

\* ------------------------------------------------------------------------
\* Order of the calls in handle_control_write
\* ------------------------------------------------------------------------

SetterCalls ==
  { "dsp_set_preset", "dsp_set_loudness", "dsp_set_mute", "dsp_set_audio_duck",
    "dsp_set_normalizer", "dsp_set_volume_trim", "dsp_set_bypass", "dsp_set_bass_boost" }
StatusCalls == { "update_status_value", "esp_ble_gatts_send_indicate" }

\* Every call of `first` in the trace comes before every call of `second`.
Precedes(steps, first, second) ==
  \A i, j \in DOMAIN steps :
    (steps[i].call \in first /\ steps[j].call \in second) => i < j

\* The status bytes report the engine's preset, loudness and mode flags.
StatusReports(value, d) ==
  /\ value[2] = dsp_get_preset(d)
  /\ value[3] = (IF dsp_get_loudness(d) THEN 1 ELSE 0)
  /\ FlagSet(value[4], DSP_FLAG_MUTED) = d.muted
  /\ FlagSet(value[4], DSP_FLAG_AUDIO_DUCK) = d.audio_duck_enabled
  /\ FlagSet(value[4], DSP_FLAG_NORMALIZER) = d.normalizer_enabled

\* C30: for a control write of at least two bytes, handle_control_write runs
\* the DSP setter before it rebuilds and notifies the status value and calls
\* the persistence callback after the notification; the status bytes it
\* builds and sends report the engine as the command left it.
C30_SetterThenStatusThenCallback ==
  (last.op = "handle_control_write" /\ Len(last.arg) >= 2) =>
    /\ Precedes(handler_steps, SetterCalls, StatusCalls)
    /\ Precedes(handler_steps, StatusCalls, {"settings_cb"})
    /\ \E i \in DOMAIN handler_steps : handler_steps[i].call = "update_status_value"
    /\ \A i \in DOMAIN handler_steps :
         handler_steps[i].call \in StatusCalls =>
           StatusReports(handler_steps[i].value, s_dsp)
    /\ StatusReports(status_value, s_dsp)

C30_Witness ==
  /\ last.op = "handle_control_write"
  /\ last.arg = <<DSP_CMD_SET_MUTE, 1>>
  /\ ~before.muted
  /\ s_dsp.muted
  /\ Len(handler_steps) = 5
  /\ handler_steps[1].call = "dsp_set_mute"
  /\ handler_steps[4].call = "esp_ble_gatts_send_indicate"
  /\ handler_steps[5].call = "settings_cb"
  /\ notifications # <<>>
  /\ StatusReports(notifications[Len(notifications)], s_dsp)

\* ------------------------------------------------------------------------
\* The OTA manager driven by the OTA characteristics and its download task
\* ------------------------------------------------------------------------

MaxOtaEvents == 7

\* Bytes a client writes to the OTA Credentials characteristic: 'A' ':' 'B',
\* "A\0B", no separator, an empty SSID before the separator, a leading colon.
CredsWrites == { <<>>, <<65, 58, 66>>, <<65, 0, 66>>, <<65, 66>>, <<0, 66>>, <<58, 65, 0>> }

\* Bytes a client writes to the OTA URL characteristic.
UrlWrites == { <<>>, <<65>>, <<32>>, <<65, 32, 0>>, <<0, 65>> }

OtaCmds == (OTA_CMD_START - 1)..OTA_CMD_VALIDATE

\* Image sizes esp_https_ota_get_image_size reports, and the bytes one
\* esp_https_ota_perform call reads.
ImageSizes == {0, 2048}
ChunkBytes == 1024

\* The engine and the DSP service stay as they are while the OTA manager runs.
OtaEvent(op, arg, ret) ==
  /\ calls < MaxOtaEvents
  /\ last' = Call(op, arg, ret)
  /\ calls' = calls + 1
  /\ UNCHANGED <<s_dsp, pcm, before, frames>>
  /\ UNCHANGED serviceVars
  /\ UNCHANGED <<nvsTaskVars, notifyVars, raceVars>>

\* app_main: ota_mgr_init(ota_status_callback) on the static context.
InitOta ==
  \E mutex_ok \in BOOLEAN : \E pending \in BOOLEAN :
    /\ s_dsp = s_dsp_static
    /\ pcm = NULL
    /\ before = s_dsp_static
    /\ frames = 0
    /\ StaticService
    /\ StaticNvsTasks
    /\ StaticNotify
    /\ StaticRace
    /\ s_ota = ota_mgr_init(s_ota_static, "ota_status_callback", mutex_ok, pending).o
    /\ ota_task = "none"
    /\ ota_status_cb = <<>>
    /\ ota_half = <<>>
    /\ ota_exiting = 0
    /\ last = Call("ota_mgr_init", [mutex_ok |-> mutex_ok, pending |-> pending],
                   ota_mgr_init(s_ota_static, "ota_status_callback", mutex_ok, pending).ret)
    /\ calls = 0

OtaMgrSetCredentials(data) ==
  /\ OtaEvent("ota_mgr_set_credentials", data, ota_mgr_set_credentials(s_ota, data).ret)
  /\ s_ota' = ota_mgr_set_credentials(s_ota, data).o
  /\ ota_status_cb' = ota_mgr_set_credentials(s_ota, data).cb
  /\ UNCHANGED <<ota_task, ota_half, ota_exiting>>

OtaMgrSetUrl(data) ==
  /\ OtaEvent("ota_mgr_set_url", data, ota_mgr_set_url(s_ota, data).ret)
  /\ s_ota' = ota_mgr_set_url(s_ota, data).o
  /\ ota_status_cb' = ota_mgr_set_url(s_ota, data).cb
  /\ UNCHANGED <<ota_task, ota_half, ota_exiting>>

\* A write of at least one byte to the OTA Control characteristic.  A command
\* that restarts the chip leaves the state app_main builds on the next boot.
OtaMgrExecuteCommand(cmd, ok, pending) ==
  \E r \in {ota_mgr_execute_command(s_ota, cmd, 0, ok)} :
    /\ OtaEvent("ota_mgr_execute_command",
                [cmd |-> cmd, s_ota |-> s_ota, task |-> ota_task, exiting |-> ota_exiting],
                r.ret)
    /\ s_ota' = IF r.restart
                THEN ota_mgr_init(s_ota_static, "ota_status_callback", TRUE, pending).o
                ELSE r.o
    /\ ota_status_cb' = r.cb
    /\ ota_task' = IF r.restart THEN "none" ELSE IF r.task_created THEN "start" ELSE ota_task
    /\ ota_half' = IF r.restart THEN <<>> ELSE ota_half
    /\ ota_exiting' = IF r.restart THEN 0 ELSE ota_exiting

\* A step inside the OTA task that is no new event: it is bounded by the
\* events that lead to it.
OtaStep(op, arg, ret) ==
  /\ last' = Call(op, arg, ret)
  /\ UNCHANGED <<s_dsp, pcm, before, frames, calls>>
  /\ UNCHANGED serviceVars
  /\ UNCHANGED <<nvsTaskVars, notifyVars, raceVars>>

\* Two steps of the task, one after the other.
Then(r, o2) == OtaResult(o2.o, r.cb \o o2.cb, ESP_OK)

\* What a step of the task did: r, the context and the callbacks it leaves,
\* and prev, the context just before its last set_state or set_error.
One(prev, r) == [prev |-> prev, r |-> r]
Two(first, prev, second) == [prev |-> prev, r |-> Then(first, second)]

\* set_state and set_error without the mutex (ota_mgr_init could not create
\* it): two plain assignments. set_error writes the error, then the state;
\* set_state writes the state, then clears the error.
FirstWrite(prev, o) ==
  IF o.state = OTA_STATE_ERROR THEN [prev EXCEPT !.error = o.error]
  ELSE [prev EXCEPT !.state = o.state]

SecondWrite(cur, second) ==
  IF second = "state" THEN [cur EXCEPT !.state = OTA_STATE_ERROR]
  ELSE [cur EXCEPT !.error = OTA_ERROR_NONE]

\* Where the task goes after the last set_state or set_error of a step: on to
\* the next part, or through cleanup, where it clears the handle.
After(o, after, size) ==
  IF after = "cleanup"
  THEN /\ s_ota' = [o EXCEPT !.ota_task_handle = "NULL"]
       /\ ota_task' = "none"
       /\ ota_exiting' = ota_exiting + 1
  ELSE /\ s_ota' = IF after = "downloading" THEN [o EXCEPT !.total_bytes = size] ELSE o
       /\ ota_task' = after
       /\ UNCHANGED ota_exiting

\* The last set_state or set_error of a step: under the mutex both fields
\* change together; without it the task stops between the two assignments.
Finish(w, after, size) ==
  IF s_ota.mutex = "NULL"
  THEN /\ s_ota' = FirstWrite(w.prev, w.r.o)
       /\ ota_task' = "half"
       /\ ota_half' = [ second |-> IF w.r.o.state = OTA_STATE_ERROR THEN "state" ELSE "error",
                        after |-> after, size |-> size ]
       /\ ota_status_cb' = IF w.r.cb = <<>> THEN <<>>
                           ELSE SubSeq(w.r.cb, 1, Len(w.r.cb) - 1)
       /\ UNCHANGED ota_exiting
  ELSE /\ After(w.r.o, after, size)
       /\ ota_status_cb' = w.r.cb
       /\ ota_half' = <<>>

\* The second assignment of a set_state or set_error without the mutex, on
\* the context as the other tasks have left it, and notify_status_update.
OtaTaskSecondWrite ==
  /\ ota_task = "half"
  /\ OtaStep("ota_task.second_write", ota_half.second, ESP_OK)
  /\ ota_status_cb' = notify_status_update(SecondWrite(s_ota, ota_half.second))
  /\ After(SecondWrite(s_ota, ota_half.second), ota_half.after, ota_half.size)
  /\ ota_half' = <<>>

\* vTaskDelete(NULL) at the end of ota_task, after the handle was cleared.
OtaTaskDelete ==
  /\ ota_exiting > 0
  /\ OtaStep("vTaskDelete", ota_exiting, ESP_OK)
  /\ ota_exiting' = ota_exiting - 1
  /\ UNCHANGED <<s_ota, ota_task, ota_status_cb, ota_half>>

\* ota_task up to the wait for the WiFi connection.
OtaTaskStart(outcome) ==
  /\ ota_task = "start"
  /\ OtaEvent("ota_task.start", outcome, ESP_OK)
  /\ \E w \in { CASE outcome = "wifi_init_failed" ->
                       One(s_ota, set_error(s_ota, OTA_ERROR_WIFI_CONNECT))
                  [] outcome = "credentials_failed" ->
                       One(s_ota, set_error(s_ota, OTA_ERROR_NO_CREDS))
                  [] outcome = "connect_failed" ->
                       Two(set_state(s_ota, OTA_STATE_WIFI_CONNECTING),
                           set_state(s_ota, OTA_STATE_WIFI_CONNECTING).o,
                           set_error(set_state(s_ota, OTA_STATE_WIFI_CONNECTING).o,
                                     OTA_ERROR_WIFI_CONNECT))
                  [] OTHER -> One(s_ota, set_state(s_ota, OTA_STATE_WIFI_CONNECTING)) } :
       Finish(w, IF outcome = "ok" THEN "connecting" ELSE "cleanup", 0)

\* ota_task from the end of the wait to the download loop.
OtaTaskConnected(outcome, size) ==
  /\ ota_task = "connecting"
  /\ OtaEvent("ota_task.connected", outcome, ESP_OK)
  /\ \E w \in { IF s_ota.cancel_requested
                THEN One(s_ota, set_error(s_ota, OTA_ERROR_CANCELLED))
                ELSE IF outcome = "timeout"
                THEN One(s_ota, set_error(s_ota, OTA_ERROR_WIFI_CONNECT))
                ELSE IF outcome = "begin_failed"
                THEN Two(set_state(s_ota, OTA_STATE_DOWNLOADING),
                         set_state(s_ota, OTA_STATE_DOWNLOADING).o,
                         set_error(set_state(s_ota, OTA_STATE_DOWNLOADING).o,
                                   OTA_ERROR_HTTP_CONNECT))
                ELSE One(s_ota, set_state(s_ota, OTA_STATE_DOWNLOADING)) } :
       Finish(w, IF ~s_ota.cancel_requested /\ outcome = "ok"
                 THEN "downloading" ELSE "cleanup", size)

\* The top of the download loop: the look at s_ota.cancel_requested.
OtaTaskLoopCheck ==
  /\ ota_task = "downloading"
  /\ OtaStep("ota_task.loop", s_ota.cancel_requested, ESP_OK)
  /\ IF s_ota.cancel_requested
     THEN Finish(One(s_ota, set_error(s_ota, OTA_ERROR_CANCELLED)), "cleanup", 0)
     ELSE /\ ota_task' = "performing"
          /\ UNCHANGED <<s_ota, ota_status_cb, ota_half, ota_exiting>>

\* One esp_https_ota_perform that reports more to come: the progress update.
Progress(o) ==
  LET read == Min(o.downloaded_bytes + ChunkBytes, Max(o.total_bytes, ChunkBytes))
      n == [o EXCEPT !.downloaded_bytes = read,
                     !.progress = IF o.total_bytes > 0
                                  THEN ((read * 100) \div o.total_bytes) % 256 ELSE @]
  IN OtaResult(n, notify_status_update(n), ESP_OK)

\* The verification and esp_https_ota_finish after the last
\* esp_https_ota_perform; nothing here looks at s_ota.cancel_requested.
Verify(o, outcome) ==
  CASE outcome = "incomplete" ->
         Two(set_state(o, OTA_STATE_VERIFYING), set_state(o, OTA_STATE_VERIFYING).o,
             set_error(set_state(o, OTA_STATE_VERIFYING).o, OTA_ERROR_VERIFY))
    [] outcome = "validate_failed" ->
         Two(set_state(o, OTA_STATE_VERIFYING), set_state(o, OTA_STATE_VERIFYING).o,
             set_error(set_state(o, OTA_STATE_VERIFYING).o, OTA_ERROR_INVALID_IMAGE))
    [] outcome = "finish_failed" ->
         Two(set_state(o, OTA_STATE_VERIFYING), set_state(o, OTA_STATE_VERIFYING).o,
             set_error(set_state(o, OTA_STATE_VERIFYING).o, OTA_ERROR_WRITE))
    [] OTHER ->
         Two(set_state(o, OTA_STATE_VERIFYING),
             [set_state(o, OTA_STATE_VERIFYING).o EXCEPT !.progress = 100],
             set_state([set_state(o, OTA_STATE_VERIFYING).o EXCEPT !.progress = 100],
                       OTA_STATE_SUCCESS))

\* esp_https_ota_perform and what follows it: the progress update and back to
\* the top of the loop, or out of the loop to the end of the task.
OtaTaskPerform(outcome) ==
  /\ ota_task = "performing"
  /\ OtaEvent("ota_task.perform", [outcome |-> outcome, cancel |-> s_ota.cancel_requested],
              ESP_OK)
  /\ IF outcome = "in_progress"
     THEN /\ s_ota' = Progress(s_ota).o
          /\ ota_status_cb' = Progress(s_ota).cb
          /\ ota_task' = "downloading"
          /\ UNCHANGED <<ota_half, ota_exiting>>
     ELSE \E w \in { IF outcome = "failed"
                     THEN One(s_ota, set_error(s_ota, OTA_ERROR_DOWNLOAD))
                     ELSE Verify(s_ota, outcome) } :
            Finish(w, "cleanup", 0)

\* The WiFi manager reports events from wifi_mgr_connect to wifi_mgr_disconnect.
WifiUp ==
  \/ ota_task \in {"connecting", "downloading", "performing"}
  \/ ota_task = "half" /\ ota_half.after = "downloading"

\* wifi_event_callback, registered by the task's wifi_mgr_init; it runs in
\* the event loop's task.
WifiEvent(state) ==
  /\ WifiUp
  /\ OtaEvent("wifi_event_callback", state, ESP_OK)
  /\ \E r \in { IF state = "CONNECTED" /\ s_ota.state = OTA_STATE_WIFI_CONNECTING
                THEN set_state(s_ota, OTA_STATE_WIFI_CONNECTED)
                ELSE IF state = "FAILED" /\ s_ota.state = OTA_STATE_WIFI_CONNECTING
                THEN set_error(s_ota, OTA_ERROR_WIFI_CONNECT)
                ELSE IF state = "DISCONNECTED" /\ s_ota.state = OTA_STATE_DOWNLOADING
                THEN set_error(s_ota, OTA_ERROR_DOWNLOAD)
                ELSE OtaResult(s_ota, <<>>, ESP_OK) } :
       /\ s_ota' = r.o
       /\ ota_status_cb' = r.cb
  /\ UNCHANGED <<ota_task, ota_half, ota_exiting>>

NextOta ==
  \/ \E data \in CredsWrites : OtaMgrSetCredentials(data)
  \/ \E data \in UrlWrites : OtaMgrSetUrl(data)
  \/ \E cmd \in OtaCmds : \E ok \in BOOLEAN : \E pending \in BOOLEAN :
       OtaMgrExecuteCommand(cmd, ok, pending)
  \/ \E outcome \in {"wifi_init_failed", "credentials_failed", "connect_failed", "ok"} :
       OtaTaskStart(outcome)
  \/ \E outcome \in {"timeout", "begin_failed", "ok"} : \E size \in ImageSizes :
       OtaTaskConnected(outcome, size)
  \/ OtaTaskLoopCheck
  \/ \E outcome \in {"in_progress", "failed", "incomplete", "validate_failed",
                     "finish_failed", "ok"} : OtaTaskPerform(outcome)
  \/ OtaTaskSecondWrite
  \/ OtaTaskDelete
  \/ \E state \in {"CONNECTED", "FAILED", "DISCONNECTED"} : WifiEvent(state)

SpecOta == InitOta /\ [][NextOta]_vars

\* C24: OTA_CMD_START with no WiFi SSID stored ends in OTA_STATE_ERROR with
\* OTA_ERROR_NO_CREDS; with an SSID but no URL it ends in OTA_STATE_ERROR with
\* OTA_ERROR_NO_URL; both return ESP_ERR_INVALID_STATE and create no OTA task.
C24_StartWithoutCredentialsOrUrl ==
  (last.op = "ota_mgr_execute_command" /\ last.arg.cmd = OTA_CMD_START) =>
    /\ Len(last.arg.s_ota.ssid) = 0 =>
         /\ s_ota.state = OTA_STATE_ERROR
         /\ s_ota.error = OTA_ERROR_NO_CREDS
    /\ (Len(last.arg.s_ota.ssid) # 0 /\ Len(last.arg.s_ota.url) = 0) =>
         /\ s_ota.state = OTA_STATE_ERROR
         /\ s_ota.error = OTA_ERROR_NO_URL
    /\ (Len(last.arg.s_ota.ssid) = 0 \/ Len(last.arg.s_ota.url) = 0) =>
         /\ last.ret = ESP_ERR_INVALID_STATE
         /\ s_ota.ota_task_handle = last.arg.s_ota.ota_task_handle
         /\ ota_task = last.arg.task

C24_Witness ==
  /\ last.op = "ota_mgr_execute_command"
  /\ last.arg.cmd = OTA_CMD_START
  /\ last.arg.s_ota.state = OTA_STATE_CREDS_RECEIVED
  /\ Len(s_ota.ssid) # 0
  /\ Len(s_ota.url) = 0
  /\ s_ota.error = OTA_ERROR_NO_URL
  /\ ota_task = "none"

\* ------------------------------------------------------------------------
\* nvs_settings.c statement by statement: the caller's task (the BLE host
\* task, through settings_changed_callback) and the FreeRTOS timer task
\* ------------------------------------------------------------------------

MaxNvsCalls == 3

\* (preset, loudness) arguments of nvs_settings_update: a valid pair, and a
\* preset id out of range.
UpdateArgs == { <<DSP_PRESET_FULL, 1>>, <<DSP_PRESET_COUNT, 0>> }

\* Boots with an empty and with a written flash, with and without the timer.
NvsStoredAtBoot ==
  { NVS_NOT_FOUND,
    Stored([preset_id |-> DSP_PRESET_NIGHT, loudness |-> 1,
            config_version |-> NVS_CONFIG_VERSION]) }
NvsBootOutcomes == {"ok", "timer_failed"}

\* Everything outside nvs_settings.c stays as it is.
NvsStep(op, arg, ret) ==
  /\ last' = Call(op, arg, ret)
  /\ UNCHANGED <<s_dsp, pcm, before, frames>>
  /\ UNCHANGED <<s_dsp_toggles, s_ble, status_value, notifications, saved_active,
                 settings_cb_invoked, handler_steps>>
  /\ UNCHANGED <<otaVars, notifyVars, raceVars>>

\* app_main's nvs_settings_init, with both tasks outside the module.
InitNvs ==
  \E stored \in NvsStoredAtBoot : \E boot \in NvsBootOutcomes :
    /\ s_dsp = s_dsp_static
    /\ pcm = NULL
    /\ before = s_dsp_static
    /\ frames = 0
    /\ calls = 0
    /\ last = Call("nvs_settings_init", [stored |-> stored, boot |-> boot],
                   nvs_settings_init(s_nvs_static, stored, boot, TRUE).ret)
    /\ s_dsp_toggles = s_dsp_toggles_static
    /\ s_ble = s_ble_static
    /\ status_value = status_value_static
    /\ notifications = <<>>
    /\ saved_active = NotSaved
    /\ settings_cb_invoked = FALSE
    /\ handler_steps = <<>>
    /\ StaticTasks
    /\ s_nvs = nvs_settings_init(s_nvs_static, stored, boot, TRUE).nvs
    /\ nvs_flash = nvs_settings_init(s_nvs_static, stored, boot, TRUE).stored

\* A request that starts the timer only when it is not running.
TimerCommand_no_reset(active, remaining) ==
  IF active THEN remaining ELSE DebounceTicks

\* xTimerReset on an active timer, xTimerStart on an inactive one: either way
\* the timer expires one period from now.
TimerCommand(active, remaining) == DebounceTicks

\* nvs_settings_update, first statements: the preset validated and cached.
UpdatePreset(preset, loudness) ==
  /\ calls < MaxNvsCalls
  /\ nvs_tasks.caller.pc = "idle"
  /\ NvsStep("nvs_settings_update", <<preset, loudness>>, ESP_OK)
  /\ calls' = calls + 1
  /\ s_nvs' = [s_nvs EXCEPT !.settings.preset_id =
                 IF preset >= DSP_PRESET_COUNT THEN DSP_PRESET_OFFICE ELSE preset]
  /\ nvs_tasks' = [nvs_tasks EXCEPT !.caller.pc = "update_loudness",
                                    !.caller.loudness = loudness]
  /\ nvs_log' = [nvs_log EXCEPT !.updates = @ + 1, !.cache_ver.preset_id = nvs_log.updates + 1]
  /\ UNCHANGED <<nvs_flash, nvs_timer>>

\* nvs_settings_update: the loudness cached.
UpdateLoudness ==
  /\ nvs_tasks.caller.pc = "update_loudness"
  /\ NvsStep("nvs_settings_update.loudness", nvs_tasks.caller.loudness, ESP_OK)
  /\ s_nvs' = [s_nvs EXCEPT !.settings.loudness =
                 IF nvs_tasks.caller.loudness # 0 THEN 1 ELSE 0]
  /\ nvs_tasks' = [nvs_tasks EXCEPT !.caller.pc = "request"]
  /\ nvs_log' = [nvs_log EXCEPT !.cache_ver.loudness = nvs_log.updates]
  /\ UNCHANGED <<nvs_flash, nvs_timer, calls>>

\* nvs_settings_request_save up to the timer command.
RequestTimer ==
  /\ IF s_nvs.initialized
     THEN /\ s_nvs' = [s_nvs EXCEPT !.timer_active = TRUE]
          /\ nvs_timer' = TimerCommand(s_nvs.timer_active, nvs_timer)
          /\ nvs_tasks' = [nvs_tasks EXCEPT !.caller.pc = "set_pending"]
          /\ nvs_log' = [nvs_log EXCEPT !.since_request = 0, !.runs = 0, !.requested = TRUE,
                                        !.resets = IF s_nvs.timer_active THEN 1 ELSE 0]
     ELSE /\ nvs_tasks' = [nvs_tasks EXCEPT !.caller.pc = "idle"]
          /\ UNCHANGED <<s_nvs, nvs_timer, nvs_log>>
  /\ UNCHANGED nvs_flash

\* nvs_settings_request_save called on its own.
RequestSave ==
  /\ calls < MaxNvsCalls
  /\ nvs_tasks.caller.pc = "idle"
  /\ NvsStep("nvs_settings_request_save", 0, ESP_OK)
  /\ calls' = calls + 1
  /\ RequestTimer

\* nvs_settings_request_save called at the end of nvs_settings_update.
UpdateRequest ==
  /\ nvs_tasks.caller.pc = "request"
  /\ NvsStep("nvs_settings_request_save", 1, ESP_OK)
  /\ UNCHANGED calls
  /\ RequestTimer

\* nvs_settings_request_save: s_nvs.save_pending = true.
SetPending ==
  /\ nvs_tasks.caller.pc = "set_pending"
  /\ NvsStep("nvs_settings_request_save.save_pending", TRUE, ESP_OK)
  /\ s_nvs' = [s_nvs EXCEPT !.save_pending = TRUE]
  /\ nvs_tasks' = [nvs_tasks EXCEPT !.caller.pc = "idle"]
  /\ UNCHANGED <<nvs_flash, nvs_timer, nvs_log, calls>>

\* nvs_settings_save_now up to xTimerStop.
SaveNow ==
  /\ calls < MaxNvsCalls
  /\ nvs_tasks.caller.pc = "idle"
  /\ NvsStep("nvs_settings_save_now", 0,
             IF s_nvs.initialized THEN ESP_OK ELSE ESP_ERR_INVALID_STATE)
  /\ calls' = calls + 1
  /\ IF s_nvs.initialized
     THEN /\ s_nvs' = [s_nvs EXCEPT !.timer_active = FALSE]
          /\ nvs_tasks' = [nvs_tasks EXCEPT !.caller.pc = "now_clear"]
          /\ nvs_log' = [nvs_log EXCEPT !.requested = FALSE]
     ELSE UNCHANGED <<s_nvs, nvs_tasks, nvs_log>>
  /\ UNCHANGED <<nvs_flash, nvs_timer>>

\* nvs_settings_save_now: s_nvs.save_pending = false, then do_save.
SaveNowClear ==
  /\ nvs_tasks.caller.pc = "now_clear"
  /\ NvsStep("nvs_settings_save_now.save_pending", FALSE, ESP_OK)
  /\ s_nvs' = [s_nvs EXCEPT !.save_pending = FALSE]
  /\ nvs_tasks' = [nvs_tasks EXCEPT !.caller.pc = "save_preset"]
  /\ UNCHANGED <<nvs_flash, nvs_timer, nvs_log, calls>>

\* The one-shot timer expires: the timer task marks it inactive and enters
\* debounce_timer_callback.
TimerExpires ==
  /\ s_nvs.timer_active
  /\ nvs_timer = 0
  /\ nvs_tasks.timer.pc = "idle"
  /\ NvsStep("debounce_timer_callback", 0, ESP_OK)
  /\ s_nvs' = [s_nvs EXCEPT !.timer_active = FALSE]
  /\ nvs_tasks' = [nvs_tasks EXCEPT !.timer.pc = "save_preset"]
  /\ nvs_log' = [nvs_log EXCEPT !.runs = @ + 1, !.run_gap = nvs_log.since_request]
  /\ UNCHANGED <<nvs_flash, nvs_timer, calls>>

\* do_save in either task: nvs_set_u8 of the preset as cached now.
SavePreset(task) ==
  /\ nvs_tasks[task].pc = "save_preset"
  /\ NvsStep("do_save.preset", task, ESP_OK)
  /\ nvs_tasks' = [nvs_tasks EXCEPT
                     ![task].pc = "save_loudness",
                     ![task].staged.preset_id = s_nvs.settings.preset_id,
                     ![task].staged_ver.preset_id = nvs_log.cache_ver.preset_id]
  /\ UNCHANGED <<s_nvs, nvs_flash, nvs_timer, nvs_log, calls>>

\* do_save: nvs_set_u8 of the loudness and the remaining keys as cached now.
SaveLoudness(task) ==
  /\ nvs_tasks[task].pc = "save_loudness"
  /\ NvsStep("do_save.loudness", task, ESP_OK)
  /\ nvs_tasks' = [nvs_tasks EXCEPT
                     ![task].pc = "commit",
                     ![task].staged.loudness = s_nvs.settings.loudness,
                     ![task].staged.config_version = s_nvs.settings.config_version,
                     ![task].staged_ver.loudness = nvs_log.cache_ver.loudness]
  /\ UNCHANGED <<s_nvs, nvs_flash, nvs_timer, nvs_log, calls>>

\* do_save: nvs_commit; a failure leaves the flash as it was.
Commit(task, write_ok) ==
  /\ nvs_tasks[task].pc = "commit"
  /\ NvsStep("do_save.commit", [task |-> task, write_ok |-> write_ok],
             IF write_ok THEN ESP_OK ELSE ESP_FAIL)
  /\ nvs_flash' = IF write_ok THEN Stored(nvs_tasks[task].staged) ELSE nvs_flash
  /\ nvs_log' = IF write_ok
                THEN [nvs_log EXCEPT !.written =
                        Max(@, Min(nvs_tasks[task].staged_ver.preset_id,
                                   nvs_tasks[task].staged_ver.loudness))]
                ELSE nvs_log
  /\ nvs_tasks' = [nvs_tasks EXCEPT ![task].pc = IF task = "timer" THEN "clear" ELSE "idle"]
  /\ UNCHANGED <<s_nvs, nvs_timer, calls>>

\* debounce_timer_callback: s_nvs.save_pending = false.
ClearPending ==
  /\ nvs_tasks.timer.pc = "clear"
  /\ NvsStep("debounce_timer_callback.save_pending", FALSE, ESP_OK)
  /\ s_nvs' = [s_nvs EXCEPT !.save_pending = FALSE]
  /\ nvs_tasks' = [nvs_tasks EXCEPT !.timer.pc = "idle"]
  /\ UNCHANGED <<nvs_flash, nvs_timer, nvs_log, calls>>

\* Both tasks are outside nvs_settings.c.
Quiescent == nvs_tasks.caller.pc = "idle" /\ nvs_tasks.timer.pc = "idle"

\* One tick of the clock.  A tick is long against the run time of the module's
\* functions, flash write included: no tick passes inside one, and an expired
\* timer is served before the next tick.
Tick ==
  /\ Quiescent
  /\ ~(s_nvs.timer_active /\ nvs_timer = 0)
  /\ s_nvs.timer_active \/ nvs_log.since_request < DebounceTicks
  /\ nvs_timer' = IF s_nvs.timer_active THEN nvs_timer - 1 ELSE nvs_timer
  /\ nvs_log' = [nvs_log EXCEPT !.since_request = Min(DebounceTicks, @ + 1)]
  /\ UNCHANGED <<s_nvs, nvs_flash, nvs_tasks, calls, last>>
  /\ UNCHANGED <<s_dsp, pcm, before, frames>>
  /\ UNCHANGED <<s_dsp_toggles, s_ble, status_value, notifications, saved_active,
                 settings_cb_invoked, handler_steps>>
  /\ UNCHANGED <<otaVars, notifyVars, raceVars>>

\* The statements of a function already entered, in the caller's task.
CallerContinues == UpdateLoudness \/ UpdateRequest \/ SetPending \/ SaveNowClear

\* The statements of do_save, in the task that runs it.
DoSave(task, outcomes) ==
  \/ SavePreset(task)
  \/ SaveLoudness(task)
  \/ \E write_ok \in outcomes : Commit(task, write_ok)

\* The timer task: the expiry, then the callback to its end.
TimerTask(outcomes) == TimerExpires \/ DoSave("timer", outcomes) \/ ClearPending

NvsCalls ==
  \/ \E args \in UpdateArgs : UpdatePreset(args[1], args[2])
  \/ RequestSave
  \/ SaveNow

NextNvs ==
  \/ NvsCalls
  \/ CallerContinues
  \/ DoSave("caller", BOOLEAN)
  \/ TimerTask(BOOLEAN)
  \/ Tick

SpecNvs == InitNvs /\ [][NextNvs]_vars

\* The same steps with every flash write succeeding, the tasks scheduled fairly
\* and the clock running: a function once entered runs to its end, the timer
\* task serves an expired timer, and time passes.
NextNvsLive ==
  \/ NvsCalls
  \/ CallerContinues
  \/ DoSave("caller", {TRUE})
  \/ TimerTask({TRUE})
  \/ Tick

SpecNvsLive ==
  /\ InitNvs
  /\ [][NextNvsLive]_vars
  /\ WF_vars(CallerContinues \/ DoSave("caller", {TRUE}))
  /\ WF_vars(TimerTask({TRUE}))
  /\ WF_vars(Tick)

\* The timer command of a request leaves the timer running for a full period;
\* no callback starts less than a period after the latest request; once the
\* timer has run out after a request the callback has run exactly once and
\* the flash holds the cached settings.
DebounceSafety ==
  /\ nvs_tasks.caller.pc = "set_pending" =>
        (s_nvs.timer_active /\ nvs_timer = DebounceTicks)
  /\ nvs_log.run_gap >= DebounceTicks
  /\ nvs_log.runs <= 1
  /\ (Quiescent /\ ~s_nvs.timer_active /\ nvs_log.requested) =>
        (nvs_log.runs = 1 /\ nvs_flash = Stored(s_nvs.settings))

\* Update number v has been cached on an initialized module.
Updated(v) ==
  /\ s_nvs.initialized
  /\ nvs_log.cache_ver.preset_id >= v
  /\ nvs_log.cache_ver.loudness >= v

C22_SavePendingIffScheduled ==
  Quiescent => (s_nvs.save_pending <=> s_nvs.timer_active)

\* ------------------------------------------------------------------------
\* Notifications: GATT events in the BLE host task, the GalacticStatus timer
\* callback in the timer task, OTA status updates in the OTA task
\* ------------------------------------------------------------------------

MaxNotifyEvents == 5

Characteristics == {"status", "galactic", "ota"}

\* Bytes a client writes to a CCC descriptor: off, notify, indicate, one byte.
NotifyCccWrites == { <<0, 0>>, <<1, 0>>, <<2, 0>>, <<1>> }

NotifyControlWrites ==
  { <<DSP_CMD_SET_MUTE, 1>>, <<DSP_CMD_SET_NORMALIZER, 1>>, <<DSP_CMD_GET_STATUS, 0>> }

\* A loud buffer the A2DP sink delivers: with the normalizer's make-up gain it
\* drives dsp_process into clipping.
NotifyBuffer == Buffer(<<1000, 1000, -20000, 30000, 32767, -32768>>)

\* What the steps of this part leave alone.
NotifyRest ==
  /\ UNCHANGED <<before, nvs_flash, saved_active>>
  /\ UNCHANGED <<otaVars, nvsTaskVars, raceVars>>

NotifyFrame ==
  /\ UNCHANGED <<pcm, frames>>
  /\ NotifyRest

\* A GATT event handled by the BLE host task.
GattEvent(op, arg, ret) ==
  /\ calls < MaxNotifyEvents
  /\ last' = Call(op, arg, ret)
  /\ calls' = calls + 1
  /\ NotifyFrame

\* A step of the timer task or of the OTA task.
TaskStep(op, arg, ret) ==
  /\ last' = Call(op, arg, ret)
  /\ UNCHANGED calls
  /\ NotifyFrame

\* The device after app_main with an empty flash, advertising.
InitNotify ==
  /\ s_dsp = app_main_dsp(set_defaults)
  /\ before = app_main_dsp(set_defaults)
  /\ pcm = NULL
  /\ frames = 0
  /\ calls = 0
  /\ last = Call("app_main", 0, ESP_OK)
  /\ s_dsp_toggles = s_dsp_toggles_static
  /\ s_ble = [s_ble_static EXCEPT !.settings_cb = "settings_changed_callback"]
  /\ status_value = status_value_static
  /\ notifications = <<>>
  /\ s_nvs = nvs_settings_init(s_nvs_static, NVS_NOT_FOUND, "ok", TRUE).nvs
  /\ nvs_flash = nvs_settings_init(s_nvs_static, NVS_NOT_FOUND, "ok", TRUE).stored
  /\ saved_active = NotSaved
  /\ settings_cb_invoked = FALSE
  /\ handler_steps = <<>>
  /\ StaticTasks

\* A notification handed to esp_ble_gatts_send_indicate for s_ble.conn_id: it
\* reaches the client connected at that moment, if there is one.
Delivered(char, send_ok) ==
  IF link.up /\ send_ok
  THEN sent \cup {[char |-> char, subscribed |-> char \in link.ccc]}
  ELSE sent

\* ESP_GATTS_CONNECT_EVT: a new connection, with every CCC at its default.
NotifyConnect(conn_id) ==
  /\ ~link.up
  /\ GattEvent("ESP_GATTS_CONNECT_EVT", conn_id, ESP_OK)
  /\ link' = [up |-> TRUE, ccc |-> {}]
  /\ s_ble' = [s_ble EXCEPT !.conn_id = conn_id, !.connected = TRUE,
                            !.last_contact_us = Now, !.galactic_timer_active = TRUE]
  /\ s_dsp' = update_status_value(s_dsp).s
  /\ status_value' = update_status_value(s_dsp).value
  /\ UNCHANGED <<s_dsp_toggles, notifications, s_nvs, settings_cb_invoked, handler_steps,
                 sent, notify_tasks>>

\* ESP_GATTS_DISCONNECT_EVT
NotifyDisconnect ==
  /\ link.up
  /\ GattEvent("ESP_GATTS_DISCONNECT_EVT", 0, ESP_OK)
  /\ link' = [up |-> FALSE, ccc |-> {}]
  /\ s_ble' = [s_ble EXCEPT !.conn_id = 65535, !.connected = FALSE,
                            !.notifications_enabled = FALSE,
                            !.galactic_notifications_enabled = FALSE,
                            !.ota_notifications_enabled = FALSE,
                            !.galactic_timer_active = FALSE]
  /\ UNCHANGED <<s_dsp, s_dsp_toggles, status_value, notifications, s_nvs,
                 settings_cb_invoked, handler_steps, sent, notify_tasks>>

\* The flag a two-byte CCC write leaves; any other length is ignored.
CccFlag(data, flag) ==
  IF Len(data) = 2 THEN data[1] + 256 * data[2] = 1 ELSE flag

\* ESP_GATTS_WRITE_EVT on one of the three CCC descriptors.
NotifyWriteCcc(char, data) ==
  /\ link.up
  /\ GattEvent("ESP_GATTS_WRITE_EVT.ccc", <<char, data>>, ESP_OK)
  /\ link' = [link EXCEPT !.ccc =
                IF Len(data) # 2 THEN @
                ELSE IF data[1] % 2 = 1 THEN @ \cup {char} ELSE @ \ {char}]
  /\ s_ble' = [s_ble EXCEPT
                 !.last_contact_us = Now,
                 !.notifications_enabled =
                    IF char = "status" THEN CccFlag(data, @) ELSE @,
                 !.galactic_notifications_enabled =
                    IF char = "galactic" THEN CccFlag(data, @) ELSE @,
                 !.ota_notifications_enabled =
                    IF char = "ota" THEN CccFlag(data, @) ELSE @]
  /\ UNCHANGED <<s_dsp, s_dsp_toggles, status_value, notifications, s_nvs,
                 settings_cb_invoked, handler_steps, sent, notify_tasks>>

\* ESP_GATTS_WRITE_EVT on the Control characteristic: handle_control_write,
\* with its Status notification, all in the BLE host task.
NotifyWriteControl(data, send_ok) ==
  /\ link.up
  /\ \E r \in {handle_control_write(s_dsp, s_dsp_toggles,
                                     [s_ble EXCEPT !.last_contact_us = Now],
                                     status_value, s_nvs, data, send_ok, Now)} :
        /\ GattEvent("handle_control_write", data, r.ret)
        /\ s_dsp' = r.s
        /\ s_dsp_toggles' = r.t
        /\ s_ble' = r.ble
        /\ status_value' = r.value
        /\ s_nvs' = r.nvs
        /\ settings_cb_invoked' = r.settings_cb_invoked
        /\ handler_steps' = r.steps
        /\ notifications' = notifications \o r.sent
        /\ sent' = IF \E i \in DOMAIN r.steps :
                        r.steps[i].call = "esp_ble_gatts_send_indicate"
                   THEN Delivered("status", send_ok) ELSE sent
  /\ UNCHANGED <<link, notify_tasks>>

\* bt_app_a2d_data_cb in the audio context: dsp_process on one buffer.
NotifyA2dpData ==
  /\ calls < MaxNotifyEvents
  /\ calls' = calls + 1
  /\ last' = Call("bt_app_a2d_data_cb", NotifyBuffer, ESP_OK)
  /\ \E out \in {dsp_process(s_dsp, NotifyBuffer, Len(NotifyBuffer.data))} :
        /\ s_dsp' = out.s
        /\ pcm' = out.samples
  /\ frames' = frames + FramesOf(s_dsp, NotifyBuffer)
  /\ NotifyRest
  /\ UNCHANGED <<s_dsp_toggles, s_ble, status_value, notifications, s_nvs,
                 settings_cb_invoked, handler_steps, link, sent, notify_tasks>>

\* galactic_notify_timer_callback: the periodic timer fires and the callback
\* finds a connected, subscribed client.
GalacticTimerCallback ==
  /\ s_ble.galactic_timer_active
  /\ notify_tasks.timer = "idle"
  /\ s_ble.connected /\ s_ble.galactic_notifications_enabled
  /\ TaskStep("galactic_notify_timer_callback", 0, ESP_OK)
  /\ notify_tasks' = [notify_tasks EXCEPT !.timer = "notify"]
  /\ UNCHANGED <<s_dsp, s_dsp_toggles, s_ble, status_value, notifications, s_nvs,
                 settings_cb_invoked, handler_steps, link, sent>>

\* ble_gatt_dsp_notify_galactic_status: the check, then
\* update_galactic_status_value, whose dsp_get_status clears the clipping flag.
GalacticNotifyCheck ==
  /\ notify_tasks.timer = "notify"
  /\ TaskStep("ble_gatt_dsp_notify_galactic_status", 0, ESP_OK)
  /\ IF s_ble.connected /\ s_ble.galactic_notifications_enabled
     THEN /\ s_dsp' = dsp_get_status(s_dsp).s
          /\ notify_tasks' = [notify_tasks EXCEPT !.timer = "send"]
     ELSE /\ notify_tasks' = [notify_tasks EXCEPT !.timer = "idle"]
          /\ UNCHANGED s_dsp
  /\ UNCHANGED <<s_dsp_toggles, s_ble, status_value, notifications, s_nvs,
                 settings_cb_invoked, handler_steps, link, sent>>

\* ble_gatt_dsp_notify_ota_status, called by the OTA task through
\* ota_status_callback: the check and the copy of the status bytes.
OtaNotifyCheck ==
  /\ notify_tasks.ota = "idle"
  /\ s_ble.connected /\ s_ble.ota_notifications_enabled
  /\ TaskStep("ble_gatt_dsp_notify_ota_status", 0, ESP_OK)
  /\ notify_tasks' = [notify_tasks EXCEPT !.ota = "send"]
  /\ UNCHANGED <<s_dsp, s_dsp_toggles, s_ble, status_value, notifications, s_nvs,
                 settings_cb_invoked, handler_steps, link, sent>>

\* esp_ble_gatts_send_indicate in a notifying task, with the connection id as
\* s_ble holds it now; a send that succeeds resets the last-contact time in
\* the GalacticStatus path.
TaskSend(task, char, send_ok) ==
  /\ notify_tasks[task] = "send"
  /\ TaskStep("esp_ble_gatts_send_indicate", char,
              IF link.up /\ send_ok THEN ESP_OK ELSE ESP_FAIL)
  /\ sent' = Delivered(char, send_ok)
  /\ s_ble' = IF char = "galactic" /\ link.up /\ send_ok
              THEN [s_ble EXCEPT !.last_contact_us = Now] ELSE s_ble
  /\ notify_tasks' = [notify_tasks EXCEPT ![task] = "idle"]
  /\ UNCHANGED <<s_dsp, s_dsp_toggles, status_value, notifications, s_nvs,
                 settings_cb_invoked, handler_steps, link>>

\* The send of ble_gatt_dsp_notify_galactic_status, in the timer task.
GalacticSend(send_ok) ==
  /\ notify_tasks.timer = "send"
  /\ TaskSend("timer", "galactic", send_ok)

\* The send of ble_gatt_dsp_notify_ota_status, in the OTA task.
OtaSend(send_ok) ==
  /\ notify_tasks.ota = "send"
  /\ TaskSend("ota", "ota", send_ok)

\* A GalacticStatus notification is about to be sent, and the connection it
\* was checked against has been replaced by a new one.
StaleGalacticSend ==
  /\ notify_tasks.timer = "send"
  /\ link.up
  /\ last.op = "ESP_GATTS_CONNECT_EVT"

NextNotify ==
  \/ \E conn_id \in {0, 1} : NotifyConnect(conn_id)
  \/ NotifyDisconnect
  \/ \E char \in Characteristics : \E data \in NotifyCccWrites : NotifyWriteCcc(char, data)
  \/ \E data \in NotifyControlWrites : \E send_ok \in BOOLEAN :
       NotifyWriteControl(data, send_ok)
  \/ NotifyA2dpData
  \/ GalacticTimerCallback
  \/ GalacticNotifyCheck
  \/ \E send_ok \in BOOLEAN : GalacticSend(send_ok)
  \/ OtaNotifyCheck
  \/ \E send_ok \in BOOLEAN : OtaSend(send_ok)

SpecNotify == InitNotify /\ [][NextNotify]_vars

\* C23: every Status, GalacticStatus or OTA-status notification delivered to a
\* client goes to a connection that has enabled notifications for that
\* characteristic: after a disconnect nothing is delivered to a later
\* connection until it writes the CCC descriptor again, also when the
\* GalacticStatus timer callback or the OTA task interleaves with the
\* disconnect event.
C23_NotifyOnlySubscribedConnection ==
  \A n \in sent : n.subscribed

\* ------------------------------------------------------------------------
\* dsp_set_preset / dsp_set_sample_rate in the control context against
\* dsp_process in the audio context (bt_app_a2d_data_cb): the setters write
\* s_dsp.eq_target in place, one field of one band at a time, and dsp_process
\* reads it for every frame; neither side takes a lock.
\* ------------------------------------------------------------------------

MaxRaceSteps == 3

RacePresets == {DSP_PRESET_FULL, DSP_PRESET_NIGHT, DSP_PRESET_COUNT}
RaceRates == {44100, 48000}
RaceBuffer == Buffer(<<1000, -20000>>)

\* The order in which calc_biquad_* assigns the fields of a coefficient set.
CoeffFields == <<"b0", "b1", "b2", "a1", "a2">>

RaceFrame ==
  /\ calls < MaxRaceSteps
  /\ calls' = calls + 1
  /\ UNCHANGED <<serviceVars, otaVars, nvsTaskVars, notifyVars>>

\* A step inside a setter that is already running.
CtlFrame ==
  /\ UNCHANGED <<calls, frames, pcm, audio>>
  /\ UNCHANGED <<serviceVars, otaVars, nvsTaskVars, notifyVars>>

InitRace ==
  /\ s_dsp = dsp_init(44100).s
  /\ before = dsp_init(44100).s
  /\ pcm = NULL
  /\ last = Call("dsp_init", 44100, ESP_OK)
  /\ calls = 0
  /\ frames = 0
  /\ StaticBle

\* dsp_set_preset up to the first write to eq_target: the checks and
\* s_dsp.preset = preset. A call the checks turn away returns at once.
CtlSetPreset(preset) ==
  /\ ctl.pc = "idle"
  /\ RaceFrame
  /\ before' = s_dsp
  /\ UNCHANGED <<frames, pcm, audio>>
  /\ IF dsp_set_preset(s_dsp, preset).s = s_dsp
     THEN /\ last' = Call("dsp_set_preset", preset, dsp_set_preset(s_dsp, preset).ret)
          /\ UNCHANGED <<s_dsp, ctl>>
     ELSE /\ last' = Call("dsp_set_preset.enter", preset, ESP_OK)
          /\ s_dsp' = [s_dsp EXCEPT !.preset = preset]
          /\ ctl' = [pc |-> "targets", op |-> "dsp_set_preset", band |-> 1, field |-> 1,
                     old |-> s_dsp.eq_target,
                     new |-> dsp_set_preset(s_dsp, preset).s.eq_target]

\* dsp_set_sample_rate up to the first write to eq_target: the checks,
\* s_dsp.sample_rate = sample_rate and the high-pass coefficients of
\* update_filters.
CtlSetSampleRate(sample_rate) ==
  /\ ctl.pc = "idle"
  /\ RaceFrame
  /\ before' = s_dsp
  /\ UNCHANGED <<frames, pcm, audio>>
  /\ IF dsp_set_sample_rate(s_dsp, sample_rate).s = s_dsp
     THEN /\ last' = Call("dsp_set_sample_rate", sample_rate,
                          dsp_set_sample_rate(s_dsp, sample_rate).ret)
          /\ UNCHANGED <<s_dsp, ctl>>
     ELSE /\ last' = Call("dsp_set_sample_rate.enter", sample_rate, ESP_OK)
          /\ s_dsp' = [s_dsp EXCEPT !.sample_rate = sample_rate,
                                    !.hpf_coeffs = calc_biquad_highpass(sample_rate)]
          /\ ctl' = [pc |-> "targets", op |-> "dsp_set_sample_rate", band |-> 1, field |-> 1,
                     old |-> s_dsp.eq_target,
                     new |-> dsp_set_sample_rate(s_dsp, sample_rate).s.eq_target]

\* One assignment of calc_biquad_* through the pointer &s_dsp.eq_target[i]:
\* c->b0, c->b1, c->b2, c->a1, c->a2 in turn, band after band.
CtlWriteField ==
  /\ ctl.pc = "targets"
  /\ CtlFrame
  /\ last' = Call("calc_eq_band", <<ctl.band, CoeffFields[ctl.field]>>, ESP_OK)
  /\ s_dsp' = [s_dsp EXCEPT !.eq_target[ctl.band][CoeffFields[ctl.field]] =
                              ctl.new[ctl.band][CoeffFields[ctl.field]]]
  /\ ctl' = IF ctl.field < Len(CoeffFields) THEN [ctl EXCEPT !.field = @ + 1]
            ELSE IF ctl.band < DSP_NUM_EQ_BANDS THEN [ctl EXCEPT !.band = @ + 1, !.field = 1]
            ELSE [ctl EXCEPT !.pc = "finish"]
  /\ UNCHANGED before

\* The rest of the setter after the EQ bands: the volume gain target of
\* dsp_set_preset; the loudness, limiter, normalizer and smoothing
\* coefficients and the cleared filter states of dsp_set_sample_rate.
CtlFinish ==
  /\ ctl.pc = "finish"
  /\ CtlFrame
  /\ last' = Call(ctl.op, 0, ESP_OK)
  /\ s_dsp' = IF ctl.op = "dsp_set_preset"
              THEN [s_dsp EXCEPT !.volume_gain_target =
                                   volume_to_gain(dsp_get_effective_volume(s_dsp))]
              ELSE ResetAllFilterStates(update_filters(s_dsp))
  /\ ctl' = CtlIdle
  /\ UNCHANGED before

\* bt_app_a2d_data_cb in the audio context: dsp_process on one stereo frame,
\* whatever the control context is doing. audio keeps the EQ targets the
\* frame was computed with, next to the targets before and after the setter
\* that is running (both the current targets when none is).
RaceProcess ==
  /\ RaceFrame
  /\ \E out \in {dsp_process(s_dsp, RaceBuffer, Len(RaceBuffer.data))} :
        /\ s_dsp' = out.s
        /\ pcm' = out.samples
  /\ frames' = frames + 1
  /\ last' = Call("dsp_process", ctl.pc, ESP_OK)
  /\ audio' = [targets |-> s_dsp.eq_target,
               old |-> IF ctl.pc = "idle" THEN s_dsp.eq_target ELSE ctl.old,
               new |-> IF ctl.pc = "idle" THEN s_dsp.eq_target ELSE ctl.new]
  /\ UNCHANGED <<before, ctl>>

NextRace ==
  \/ \E preset \in RacePresets : CtlSetPreset(preset)
  \/ \E sample_rate \in RaceRates : CtlSetSampleRate(sample_rate)
  \/ CtlWriteField
  \/ CtlFinish
  \/ RaceProcess

SpecRace == InitRace /\ [][NextRace]_vars

\* C27: when dsp_set_preset or dsp_set_sample_rate in the control context
\* interleaves with dsp_process in the audio context, every frame is processed
\* with EQ target coefficient sets that each belong entirely to one
\* configuration, the old or the new one, never a mixture of fields of both.
\* (The audio context never waits: RaceProcess has no guard on ctl, as
\* dsp_process takes no lock.)
C27_FramesSeeWholeCoefficientSets ==
  audio # NoFrame =>
    \A b \in 1..DSP_NUM_EQ_BANDS : audio.targets[b] \in {audio.old[b], audio.new[b]}

\* A frame has been processed at each position of a running setter.
FrameInsideSetter ==
  /\ last.op = "dsp_process"
  /\ last.arg \in {"targets", "finish"}

\* ------------------------------------------------------------------------
\* The clipping flag: set by dsp_process, cleared by dsp_get_status
\* ------------------------------------------------------------------------

\* A step reads the clipping flag away: set before, clear after.
ClippingReadAway ==
  s_dsp.clipping_detected /\ ~s_dsp'.clipping_detected

\* The Status value a step leaves exposed carries DSP_FLAG_CLIPPING, and so
\* does the Status notification it sent, if it sent one.
ClippingPublished ==
  /\ FlagSet(status_value'[4], DSP_FLAG_CLIPPING)
  /\ notifications' # notifications =>
       FlagSet(notifications'[Len(notifications')][4], DSP_FLAG_CLIPPING)

\* C31: every clipping event detected by dsp_process is reported to the
\* client: a step that clears the clipping flag leaves DSP_FLAG_CLIPPING in
\* the Status characteristic value it exposes or notifies; neither the
\* GalacticStatus refresh nor the repeated status refresh within one control
\* write clears the flag without publishing it.
C31_ClippingAlwaysReported ==
  [][ClippingReadAway => ClippingPublished]_vars

\* The same for the steps of the BLE host task alone.
ControlWriteReportsClipping ==
  [][(ClippingReadAway /\ last'.op = "handle_control_write") => ClippingPublished]_vars

\* The same for a control write or a connect while no client has subscribed
\* to the Status characteristic.
UnsubscribedReadReportsClipping ==
  [][(ClippingReadAway /\ ~s_ble.notifications_enabled
        /\ last'.op \in {"handle_control_write", "ESP_GATTS_CONNECT_EVT"})
       => ClippingPublished]_vars

\* ------------------------------------------------------------------------
\* Properties of the OTA manager
\* ------------------------------------------------------------------------

\* The step is one of the BLE writes that have nothing to do with validating,
\* rebooting or rolling back: credentials, URL, OTA_CMD_CANCEL, OTA_CMD_START,
\* OTA_CMD_GET_VERSION.
OtherBleWrite ==
  \/ last'.op \in {"ota_mgr_set_credentials", "ota_mgr_set_url"}
  \/ /\ last'.op = "ota_mgr_execute_command"
     /\ last'.arg.cmd \in {OTA_CMD_CANCEL, OTA_CMD_START, OTA_CMD_GET_VERSION}

\* C34: once ota_mgr_init has found the running firmware pending validation,
\* the state stays OTA_STATE_PENDING_VERIFY until OTA_CMD_VALIDATE succeeds or
\* the device reboots or rolls back: no write of credentials or of the URL and
\* no OTA_CMD_CANCEL, OTA_CMD_START or OTA_CMD_GET_VERSION changes it (so that
\* a later OTA_CMD_VALIDATE, which marks the firmware valid only in that
\* state, still does).
C34_PendingVerifyKept ==
  [][(s_ota.state = OTA_STATE_PENDING_VERIFY /\ OtherBleWrite)
       => s_ota'.state = OTA_STATE_PENDING_VERIFY]_vars

\* OTA_CMD_GET_VERSION alone leaves the state pending.
GetVersionKeepsPending ==
  [][(s_ota.state = OTA_STATE_PENDING_VERIFY
        /\ last'.op = "ota_mgr_execute_command" /\ last'.arg.cmd = OTA_CMD_GET_VERSION)
       => s_ota'.state = OTA_STATE_PENDING_VERIFY]_vars

\* No task is between the two assignments of a set_state or set_error.
OtaSettled == ota_task # "half"

\* C33: in every state of the OTA manager in which no task is inside
\* set_state or set_error, the error code is OTA_ERROR_NONE exactly when the
\* state is not OTA_STATE_ERROR, under any interleaving of BLE commands, WiFi
\* event callbacks and the OTA task.
C33_ErrorIffErrorState ==
  OtaSettled => (s_ota.error = OTA_ERROR_NONE <=> s_ota.state # OTA_STATE_ERROR)

\* The same while set_state and set_error run under the mutex.
ErrorIffErrorStateUnderMutex ==
  s_ota.mutex # "NULL" => (s_ota.error = OTA_ERROR_NONE <=> s_ota.state # OTA_STATE_ERROR)

\* The OTA tasks that exist: the one at work and those on their way to
\* vTaskDelete.
TaskCount == (IF ota_task = "none" THEN 0 ELSE 1) + ota_exiting

\* The last step was OTA_CMD_START.
StartJustHandled ==
  last.op = "ota_mgr_execute_command" /\ last.arg.cmd = OTA_CMD_START

\* The last command created no task and reset neither the progress, nor the
\* byte counters, nor the cancel request.
NothingStarted ==
  /\ last.ret = ESP_ERR_INVALID_STATE
  /\ ota_task = last.arg.task
  /\ ota_exiting = last.arg.exiting
  /\ s_ota.ota_task_handle = last.arg.s_ota.ota_task_handle
  /\ s_ota.progress = last.arg.s_ota.progress
  /\ s_ota.downloaded_bytes = last.arg.s_ota.downloaded_bytes
  /\ s_ota.total_bytes = last.arg.s_ota.total_bytes
  /\ s_ota.cancel_requested = last.arg.s_ota.cancel_requested

\* The last command, given credentials and a URL, started a task, unless
\* xTaskCreate failed.
StartAccepted ==
  (Len(last.arg.s_ota.ssid) # 0 /\ Len(last.arg.s_ota.url) # 0) =>
    \/ last.ret = ESP_OK /\ ota_task = "start" /\ s_ota.ota_task_handle # "NULL"
    \/ last.ret = ESP_ERR_NO_MEM /\ ota_task = "none"

\* C32 as stated: at most one OTA download task exists at any time;
\* OTA_CMD_START received while a task exists returns ESP_ERR_INVALID_STATE
\* without creating a task and without resetting progress, byte counters or
\* the cancel request; after the task has ended a new OTA_CMD_START is
\* accepted again.
C32_AtMostOneOtaTask ==
  /\ TaskCount <= 1
  /\ StartJustHandled =>
       IF last.arg.task # "none" \/ last.arg.exiting > 0
       THEN NothingStarted ELSE StartAccepted

\* C32, amended: at most one OTA task holds s_ota.ota_task_handle at any time,
\* and it is the task at work; OTA_CMD_START received while the handle is set
\* returns ESP_ERR_INVALID_STATE without creating a task and without resetting
\* progress, byte counters or the cancel request; once the task has cleared
\* the handle at the end of its cleanup a new OTA_CMD_START is accepted, also
\* before the old task has reached its vTaskDelete.
C32_AtMostOneTaskHoldsHandle ==
  /\ (ota_task # "none") <=> (s_ota.ota_task_handle # "NULL")
  /\ StartJustHandled =>
       IF last.arg.s_ota.ota_task_handle # "NULL"
       THEN NothingStarted ELSE StartAccepted

\* OTA_CMD_START was refused in the middle of a download, with the progress
\* at work left as it was.
C32_Witness ==
  /\ StartJustHandled
  /\ last.arg.task = "downloading"
  /\ last.arg.s_ota.progress > 0
  /\ last.ret = ESP_ERR_INVALID_STATE
  /\ ota_task = "downloading"
  /\ s_ota.progress = last.arg.s_ota.progress

\* OTA_CMD_START was accepted while the task before it had not deleted itself.
StartBesideExitingTask ==
  /\ StartJustHandled
  /\ last.arg.exiting > 0
  /\ last.ret = ESP_OK
  /\ TaskCount = 2

\* The last step was the OTA task's last before its cleanup.
TaskJustEnded ==
  /\ last.op \in {"ota_task.start", "ota_task.connected", "ota_task.loop",
                  "ota_task.perform", "ota_task.second_write"}
  /\ ota_task = "none"

\* C35: if OTA_CMD_CANCEL was received while the OTA task was running, the
\* task terminates with state OTA_STATE_ERROR and error OTA_ERROR_CANCELLED; it
\* never ends in OTA_STATE_SUCCESS after the cancel was requested.
C35_CancelEndsTaskCancelled ==
  (TaskJustEnded /\ s_ota.cancel_requested) =>
    /\ s_ota.state = OTA_STATE_ERROR
    /\ s_ota.error = OTA_ERROR_CANCELLED

\* The weaker half alone, with the mutex in place: no success after a cancel.
NoSuccessAfterCancel ==
  (TaskJustEnded /\ s_ota.cancel_requested /\ s_ota.mutex # "NULL") =>
    s_ota.state # OTA_STATE_SUCCESS
====
